---- MODULE Spec2Model ----
(***************************************************************************)
(* A model of the TOM-DAX frontend: the React components' state, the       *)
(* handlers that change it, and the requests they have in flight.          *)
(*                                                                         *)
(* Each component is a group of variables named after its useState hooks.  *)
(* One action is one handler run by the browser's event loop: a click, or  *)
(* the continuation of an async function after an awaited fetch.  State    *)
(* updates made in one continuation are batched by React 18 (createRoot,   *)
(* src/src/index.tsx:20), so a continuation is one atomic step.            *)
(*                                                                         *)
(* The components do not share state, so each has a specification of its   *)
(* own over the same variables:                                            *)
(*   SpecConfig     ConfigDialog                    (src/src/app/App.tsx)   *)
(*   SpecAuth       AuthProvider, AppFC, Login                              *)
(*   SpecIndexer    DatabaseIndexer's list, schema and search, and the     *)
(*                  list of NLPChat                                        *)
(*   SpecIndexing   DatabaseIndexer's list with delete, index and the      *)
(*                  progress polling                                       *)
(*   SpecTranslate  the translation helpers                                *)
(*   SpecChat       NLPChat's list, queries and enhancements               *)
(***************************************************************************)
EXTENDS Integers, Sequences, FiniteSets, TLC

VARIABLES
    \* ---- ConfigDialog (src/src/app/App.tsx:391-555)
    configOpen,                 \* useState(false): the dialog is open
    config,                     \* the redux store's state.config
    formulateTimeoutSeconds,    \* the four edited values (a number or NaN)
    maxRepairAttempts,
    defaultChartWidth,
    defaultChartHeight,
    lastSetConfig,              \* payload of the last dispatched setConfig (once nSetConfig > 0)
    nSetConfig,                 \* number of setConfig actions dispatched so far
    \* ---- AuthProvider (src/src/hooks/useAuth.tsx:24-85)
    user,                       \* useState(null)
    isAuthenticated,            \* useState(false)
    isLoading,                  \* useState(true)
    verifyInFlight,             \* /api/auth/verify requests not yet answered
    logoutInFlight,             \* /api/auth/logout requests not yet answered
    verifyOutcome,              \* the answer checkAuth handled last
    \* ---- AppFC (src/src/app/App.tsx:557-618)
    rendered,                   \* what AppFC returned at its last render
    \* ---- Login (src/src/components/Login.tsx:47-96), the mounted instance
    loginLoading,               \* useState(false)
    loginError,                 \* useState('')
    loginReqs,                  \* login requests not yet answered
    loginOutcome,               \* the answer a handleSubmit call handled last, and whether
                                \* that call's Login instance was still mounted
    nSubmit,                    \* number of handleSubmit calls so far
    nOnLoginSuccess,            \* number of onLoginSuccess calls so far
    \* ---- DatabaseIndexer (src/src/components/DatabaseIndexer.tsx:97-258)
    ixOpen,                     \* DatabaseIndexer: useState(false), the dialog is open
    ixIndexedDatabases,         \* indexedDatabases: useState([])
    selectedDatabase,           \* useState(null)
    schemaDialogOpen,           \* useState(false)
    ixLoading,                  \* loading: useState(false)
    ixMessage,                  \* message: useState(null)
    ixReqs,                     \* the requests in flight, in the order they were sent
    ixLastList,                 \* the last successful list answer the instance received
    ixLastSchema,               \* the last successful schema answer the instance received
    searchResults,              \* useState([])
    searchQuery,                \* useState('')
    searching,                  \* useState(false)
    indexDialogOpen,            \* useState(false)
    connectionName,             \* useState('')
    connectionParams,           \* useState({}), its server entry
    indexing,                   \* useState(false)
    progress,                   \* useState(0)
    progressMessage,            \* useState('')
    totalTables,                \* useState(0)
    processedTables,            \* useState(0)
    intervals,                  \* the progress intervals set and not cleared
    nIndexCalls,                \* number of handleIndexDatabase calls so far
    \* ---- NLPChat (src/src/components/NLPChat.tsx:109-181)
    chatOpen,                   \* NLPChat: useState(false), the dialog is open
    chatIndexedDatabases,       \* indexedDatabases: useState([])
    selectedDatabaseId,         \* useState(null)
    chatMessage,                \* message: useState(null)
    chatReqs,                   \* the list requests in flight, in the order they were sent
    chatLastList,               \* the last successful list answer the instance received
    inputQuery,                 \* useState('')
    chatLoading,                \* loading: useState(false)
    translating,                \* useState(false)
    autoTranslate,              \* useState(true)
    messages,                   \* useState([])
    enhancementMode,            \* useState(null): the call whose SQL is being enhanced, or 0
    enhancementQuery,           \* useState('')
    sendCalls,                  \* the handleSendQuery and handleEnhanceSQL calls in progress
    nSendCalls,                 \* number of such calls so far
    importDialog,               \* useState({open: false, sql: '', tableName: ''})
    importCalls,                \* the handleConfirmImport calls in progress
    nImportCalls,               \* number of such calls so far
    loadTableLog,               \* the loadTable actions dispatched to the store, in order
    importLog,                  \* the handleConfirmImport call that ended last, with its answers
                                \* (call 0: none has ended)
    failureLog,                 \* the failed request handled last, and how
    \* ---- translation helpers (src/src/utils/translationUtils.test.ts:88-290)
    trPhase,                    \* where the caller of the helpers is
    trText,                     \* the text they are called with
    trIsTurkish,                \* what isTurkishText returned
    trAttempt,                  \* smartTranslateTurkishToEnglish: attempt
    nTranslateReqs,             \* translate-query requests the current call has sent
    trWaits,                    \* the delays (ms) of the timeouts the current call has awaited
    trAnswer,                   \* the answer a direct translateTurkishToEnglishWithLLM call got
    trResult,                   \* the TranslationResult of the last attempt, or the one returned
    trSuggestions,              \* what getTranslationSuggestions returned
    \* ---- TableUploadDialog (src/src/views/TableSelectionView.tsx:267-585)
    fileUploading,              \* the store's state.fileUploading
    uploads,                    \* the handleFileUploadWithProgress calls in progress
    uploadTimers,               \* the removeFileUploadProgress timeouts set and not yet run
    nUploads,                   \* number of handleFileUploadWithProgress calls so far
    uploadLog,                  \* the calls that have ended, in the order they ended
    uploadMessages,             \* the addMessages actions the calls dispatched, in order
    tablesLoaded,               \* the loadTable actions the calls dispatched, in order
    \* ---- TableCopyDialogV2 (src/src/views/TableSelectionView.tsx:672-800)
    tableContent,               \* useState("")
    cleaningInProgress,         \* useState(false)
    cleanTableContent,          \* useState(undefined)
    cleanReqs,                  \* the clean-data requests in flight, in the order they were sent
    nClean,                     \* number of handleCleanData calls so far
    cleanMessages,              \* number of error messages handleCleanData has dispatched
    \* ---- DataThread (src/unnamed/part_000:749-808)
    tables,                     \* the store's state.tables
    leafTables,                 \* leafTables of the last render, sorted
    threads                     \* the SingleThreadView elements of the last render

configVars == <<configOpen, config, formulateTimeoutSeconds, maxRepairAttempts,
                defaultChartWidth, defaultChartHeight, lastSetConfig, nSetConfig>>

authVars == <<user, isAuthenticated, isLoading, verifyInFlight, logoutInFlight, verifyOutcome,
              rendered>>

loginVars == <<loginLoading, loginError, loginReqs, loginOutcome, nSubmit, nOnLoginSuccess>>

indexerVars == <<ixOpen, ixIndexedDatabases, selectedDatabase, schemaDialogOpen, ixLoading,
                 ixMessage, ixReqs, ixLastList, ixLastSchema>>

searchVars == <<searchResults, searchQuery, searching>>

formVars == <<indexDialogOpen, connectionName, connectionParams>>

progressVars == <<progress, progressMessage, totalTables, processedTables>>

indexingVars == <<formVars, progressVars, indexing, intervals, nIndexCalls>>

\* NLPChatContent's chat: the input, the messages and the calls in progress.
sendVars == <<inputQuery, chatLoading, translating, autoTranslate, messages, enhancementMode,
              enhancementQuery, sendCalls, nSendCalls>>

\* NLPChatContent's import dialog, and what it has dispatched to the store.
importVars == <<importDialog, importCalls, nImportCalls, loadTableLog, importLog>>

chatVars == <<chatOpen, chatIndexedDatabases, selectedDatabaseId, chatMessage, chatReqs,
              chatLastList, sendVars, importVars>>

\* The components below the shell, and the shell itself.
translateVars == <<trPhase, trText, trIsTurkish, trAttempt, nTranslateReqs, trResult,
                   trSuggestions, trWaits, trAnswer>>

\* TableUploadDialog: the store's upload progress and the uploads in progress.
uploadVars == <<fileUploading, uploads, uploadTimers, nUploads, uploadLog, uploadMessages,
                tablesLoaded>>

\* The views of TableSelectionView and DataThread.
\* TableCopyDialogV2: the pasted content and its cleaning.
cleanVars == <<tableContent, cleaningInProgress, cleanTableContent, cleanReqs, nClean,
               cleanMessages>>

\* DataThread: the tables and the threads rendered for them.
threadVars == <<tables, leafTables, threads>>

viewVars == <<uploadVars, cleanVars, threadVars>>

componentVars == <<indexerVars, searchVars, indexingVars, chatVars, failureLog, translateVars,
                   viewVars>>

shellVars == <<configVars, authVars, loginVars>>

vars == <<shellVars, componentVars>>

(***************************************************************************)
(* JavaScript numbers and text.                                            *)
(* A text is a sequence of characters, a character is a one-letter string  *)
(* (letters outside ASCII have a two-letter label).  NaN is encoded as an    *)
(* integer no input of the model parses to: every ordering comparison with *)
(* it is false and it differs from everything, itself included.            *)
(***************************************************************************)
NaN == -999999999

isNaN(v) == v = NaN

\* a <= b, a < b, a > b of two JavaScript numbers
Le(a, b) == ~isNaN(a) /\ ~isNaN(b) /\ a <= b
Lt(a, b) == ~isNaN(a) /\ ~isNaN(b) /\ a < b
Gt(a, b) == ~isNaN(a) /\ ~isNaN(b) /\ a > b

\* a !== b
StrictNotEqual(a, b) == isNaN(a) \/ isNaN(b) \/ a # b

WhiteSpace == {" ", "\t", "\n"}

DigitValue(c) ==
    CASE c = "0" -> 0 [] c = "1" -> 1 [] c = "2" -> 2 [] c = "3" -> 3
      [] c = "4" -> 4 [] c = "5" -> 5 [] c = "6" -> 6 [] c = "7" -> 7
      [] c = "8" -> 8 [] c = "9" -> 9
      [] c \in {"a", "A"} -> 10 [] c \in {"b", "B"} -> 11
      [] c \in {"c", "C"} -> 12 [] c \in {"d", "D"} -> 13
      [] c \in {"e", "E"} -> 14 [] c \in {"f", "F"} -> 15
      [] OTHER -> 99

RECURSIVE SkipWhiteSpace(_)
SkipWhiteSpace(s) ==
    IF s # <<>> /\ Head(s) \in WhiteSpace THEN SkipWhiteSpace(Tail(s)) ELSE s

\* The value of the longest prefix of s made of digits of the radix, given
\* the value acc of the digits read so far; NaN when there is no digit.
RECURSIVE ParseDigits(_, _, _, _)
ParseDigits(s, radix, acc, seen) ==
    IF s # <<>> /\ DigitValue(Head(s)) < radix
    THEN ParseDigits(Tail(s), radix, acc * radix + DigitValue(Head(s)), TRUE)
    ELSE IF seen THEN acc ELSE NaN

\* parseInt(string) with no radix argument: leading white space is skipped,
\* a sign is read, "0x" selects radix 16, and the digits stop at the first
\* character that is not one.
parseInt(str) ==
    LET s1   == SkipWhiteSpace(str)
        neg  == s1 # <<>> /\ Head(s1) = "-"
        s2   == IF s1 # <<>> /\ Head(s1) \in {"+", "-"} THEN Tail(s1) ELSE s1
        hex  == Len(s2) >= 2 /\ s2[1] = "0" /\ s2[2] \in {"x", "X"}
        s3   == IF hex THEN Tail(Tail(s2)) ELSE s2
        n    == ParseDigits(s3, IF hex THEN 16 ELSE 10, 0, FALSE)
    IN  IF isNaN(n) THEN NaN ELSE IF neg THEN 0 - n ELSE n

(***************************************************************************)
(* ConfigDialog                                                            *)
(***************************************************************************)
\* The model stops counting dispatched setConfig actions here.
MaxSetConfig == 2

\* What the user may type into the four number fields.
TimeoutInputs == { <<>>, <<"0">>, <<"1">>, <<"3","6","0","0">>, <<"3","6","0","1">>,
                   <<"1","2","p","x">> }
RepairInputs  == { <<>>, <<"0">>, <<"5">>, <<"6">>, <<"1",".","5">>, <<"-","2">> }
WidthInputs   == { <<>>, <<"0">>, <<"5","0">>, <<"1","0","0">>, <<"1","0","0","0">>,
                   <<"1","0","0","1">> }
HeightInputs  == { <<>>, <<"9","9">>, <<"1","0","0","0">>, <<"1","0","0","1">> }

\* The values of 'Reset to default'; the store starts with them.
DefaultConfig ==
    [formulateTimeoutSeconds |-> 30, maxRepairAttempts |-> 1,
     defaultChartWidth |-> 300, defaultChartHeight |-> 300]

ConfigInit ==
    /\ configOpen = FALSE
    /\ config = DefaultConfig
    /\ formulateTimeoutSeconds = config.formulateTimeoutSeconds
    /\ maxRepairAttempts = config.maxRepairAttempts
    /\ defaultChartWidth = config.defaultChartWidth
    /\ defaultChartHeight = config.defaultChartHeight
    /\ lastSetConfig = config
    /\ nSetConfig = 0

hasChanges ==
    \/ StrictNotEqual(formulateTimeoutSeconds, config.formulateTimeoutSeconds)
    \/ StrictNotEqual(maxRepairAttempts, config.maxRepairAttempts)
    \/ StrictNotEqual(defaultChartWidth, config.defaultChartWidth)
    \/ StrictNotEqual(defaultChartHeight, config.defaultChartHeight)

\* The variant of ApplyDisabled that forgets the isNaN tests.
ApplyDisabledNoNaNTest ==
    \/ ~hasChanges
    \/ Le(maxRepairAttempts, 0) \/ Gt(maxRepairAttempts, 5)
    \/ Le(formulateTimeoutSeconds, 0) \/ Gt(formulateTimeoutSeconds, 3600)
    \/ Le(defaultChartWidth, 0) \/ Gt(defaultChartWidth, 1000)
    \/ Le(defaultChartHeight, 0) \/ Gt(defaultChartHeight, 1000)

\* The Apply button's disabled attribute.
ApplyDisabled ==
    \/ ~hasChanges
    \/ isNaN(maxRepairAttempts) \/ Le(maxRepairAttempts, 0) \/ Gt(maxRepairAttempts, 5)
    \/ isNaN(formulateTimeoutSeconds) \/ Le(formulateTimeoutSeconds, 0)
    \/ Gt(formulateTimeoutSeconds, 3600)
    \/ isNaN(defaultChartWidth) \/ Le(defaultChartWidth, 0) \/ Gt(defaultChartWidth, 1000)
    \/ isNaN(defaultChartHeight) \/ Le(defaultChartHeight, 0) \/ Gt(defaultChartHeight, 1000)

\* The field's error attribute, under which the helper text "Value must be
\* between 100 and 1000 pixels" is shown.
ChartSizeError(v) == Lt(v, 100) \/ Gt(v, 1000)

ConfigOpenDialog ==
    /\ ~configOpen
    /\ configOpen' = TRUE
    /\ UNCHANGED <<config, formulateTimeoutSeconds, maxRepairAttempts,
                   defaultChartWidth, defaultChartHeight, lastSetConfig, nSetConfig>>

\* Cancel, or the dialog's onClose: the edited values are kept.
ConfigCancel ==
    /\ configOpen
    /\ configOpen' = FALSE
    /\ UNCHANGED <<config, formulateTimeoutSeconds, maxRepairAttempts,
                   defaultChartWidth, defaultChartHeight, lastSetConfig, nSetConfig>>

ConfigEditTimeout ==
    /\ configOpen
    /\ \E str \in TimeoutInputs : formulateTimeoutSeconds' = parseInt(str)
    /\ UNCHANGED <<configOpen, config, maxRepairAttempts, defaultChartWidth,
                   defaultChartHeight, lastSetConfig, nSetConfig>>

ConfigEditRepair ==
    /\ configOpen
    /\ \E str \in RepairInputs : maxRepairAttempts' = parseInt(str)
    /\ UNCHANGED <<configOpen, config, formulateTimeoutSeconds, defaultChartWidth,
                   defaultChartHeight, lastSetConfig, nSetConfig>>

ConfigEditWidth ==
    /\ configOpen
    /\ \E str \in WidthInputs : defaultChartWidth' = parseInt(str)
    /\ UNCHANGED <<configOpen, config, formulateTimeoutSeconds, maxRepairAttempts,
                   defaultChartHeight, lastSetConfig, nSetConfig>>

ConfigEditHeight ==
    /\ configOpen
    /\ \E str \in HeightInputs : defaultChartHeight' = parseInt(str)
    /\ UNCHANGED <<configOpen, config, formulateTimeoutSeconds, maxRepairAttempts,
                   defaultChartWidth, lastSetConfig, nSetConfig>>

ConfigReset ==
    /\ configOpen
    /\ formulateTimeoutSeconds' = 30
    /\ maxRepairAttempts' = 1
    /\ defaultChartWidth' = 300
    /\ defaultChartHeight' = 300
    /\ UNCHANGED <<configOpen, config, lastSetConfig, nSetConfig>>

\* Apply: dispatch(dfActions.setConfig({...})); setOpen(false).  The reducer
\* stores the payload as state.config.
ConfigApply ==
    /\ configOpen
    /\ ~ApplyDisabled
    /\ nSetConfig < MaxSetConfig
    /\ LET payload == [formulateTimeoutSeconds |-> formulateTimeoutSeconds,
                       maxRepairAttempts |-> maxRepairAttempts,
                       defaultChartWidth |-> defaultChartWidth,
                       defaultChartHeight |-> defaultChartHeight]
       IN  /\ lastSetConfig' = payload
           /\ config' = payload
    /\ nSetConfig' = nSetConfig + 1
    /\ configOpen' = FALSE
    /\ UNCHANGED <<formulateTimeoutSeconds, maxRepairAttempts, defaultChartWidth,
                   defaultChartHeight>>

(***************************************************************************)
(* AuthProvider, AppFC and Login                                           *)
(***************************************************************************)
NoUser == "null"

\* The users the server may name in data.user.
Users == {"alice", "bob"}

\* The model stops submitting the login form after this many attempts, and
\* keeps at most this many logout requests in flight.
MaxSubmit == 2
MaxLogoutInFlight == 1

EmptyString == ""
NetworkError == "Network error. Please try again."
LoginFailed == "Login failed"

\* data.message of a refused login; EmptyString also stands for its absence
\* (both are falsy).
ServerMessages == {EmptyString, "Invalid credentials"}

\* The variant of AppFC that forgets the isAuthenticated test.
AppFCNoAuthTest(loading, authenticated) ==
    IF loading THEN "spinner" ELSE "shell"

\* What AppFC returns: the spinner, the Login page, or the authenticated
\* shell (theme, app bar and routed views).
AppFC(loading, authenticated) ==
    IF loading THEN "spinner"
    ELSE IF ~authenticated THEN "login"
    ELSE "shell"

\* How the login request can end: the fetch is rejected, the HTTP status is
\* not ok, the body is not JSON, or the body is read.
LoginAnswers ==
    {[kind |-> k, success |-> FALSE, message |-> EmptyString, user |-> NoUser] :
        k \in {"reject", "http", "json"}}
    \cup {[kind |-> "body", success |-> TRUE, message |-> EmptyString, user |-> u] :
        u \in Users}
    \cup {[kind |-> "body", success |-> FALSE, message |-> m, user |-> NoUser] :
        m \in ServerMessages}

NoAnswer == [kind |-> "none", success |-> FALSE, message |-> EmptyString, user |-> NoUser,
             mounted |-> FALSE]

\* How the verify request can end: data.authenticated with data.user, not
\* authenticated, or fetch / response.json() throws.
VerifyAnswers ==
    {[kind |-> "body", authenticated |-> TRUE, user |-> u] : u \in Users}
    \cup {[kind |-> "body", authenticated |-> FALSE, user |-> NoUser],
          [kind |-> "throw", authenticated |-> FALSE, user |-> NoUser]}

\* The state after construction with n mount effects run (React.StrictMode
\* runs the effect twice in a development build): n verify requests are in
\* flight.
AuthStart(n) ==
    /\ user = NoUser
    /\ isAuthenticated = FALSE
    /\ isLoading = TRUE
    /\ verifyInFlight = n
    /\ logoutInFlight = 0
    /\ verifyOutcome = [kind |-> "none", authenticated |-> FALSE, user |-> NoUser]
    /\ rendered = AppFC(TRUE, FALSE)
    /\ loginLoading = FALSE
    /\ loginError = EmptyString
    /\ loginReqs = {}
    /\ loginOutcome = NoAnswer
    /\ nSubmit = 0
    /\ nOnLoginSuccess = 0

AuthInit == \E n \in {1, 2} : AuthStart(n)

\* The Login instance after AppFC has rendered again.  A Login that has just
\* been mounted starts from its useState values; one that stays mounted has
\* the values its handler set; after it is unmounted its requests are still
\* in flight, but their setLoading and setError calls reach no instance.
LoginRender(newRendered, loading, error, reqs) ==
    IF newRendered = "login" /\ rendered = "login"
    THEN /\ loginLoading' = loading
         /\ loginError' = error
         /\ loginReqs' = reqs
    ELSE /\ loginLoading' = FALSE
         /\ loginError' = EmptyString
         /\ loginReqs' = {[r EXCEPT !.mounted = FALSE] : r \in reqs}

\* The variant of checkAuth that has setIsLoading(false) at the end of its
\* try block instead of in a finally.
CheckAuthResponseNoFinally ==
    /\ verifyInFlight > 0
    /\ verifyInFlight' = verifyInFlight - 1
    /\ \E a \in VerifyAnswers :
        /\ verifyOutcome' = a
        /\ IF a.kind = "body" /\ a.authenticated
           THEN user' = a.user /\ isAuthenticated' = TRUE
           ELSE user' = NoUser /\ isAuthenticated' = FALSE
        /\ isLoading' = IF a.kind = "body" THEN FALSE ELSE isLoading
    /\ rendered' = AppFC(isLoading', isAuthenticated')
    /\ LoginRender(rendered', loginLoading, loginError, loginReqs)
    /\ UNCHANGED <<logoutInFlight, loginOutcome, nSubmit, nOnLoginSuccess>>

\* checkAuth after its fetch has been answered.
CheckAuthResponse ==
    /\ verifyInFlight > 0
    /\ verifyInFlight' = verifyInFlight - 1
    /\ \E a \in VerifyAnswers :
        /\ verifyOutcome' = a
        /\ IF a.kind = "body" /\ a.authenticated
           THEN user' = a.user /\ isAuthenticated' = TRUE
           ELSE user' = NoUser /\ isAuthenticated' = FALSE
        /\ isLoading' = FALSE
    /\ rendered' = AppFC(isLoading', isAuthenticated')
    /\ LoginRender(rendered', loginLoading, loginError, loginReqs)
    /\ UNCHANGED <<logoutInFlight, loginOutcome, nSubmit, nOnLoginSuccess>>

\* logout up to its fetch; LogoutButton is part of the shell's app bar.
LogoutStart ==
    /\ rendered = "shell"
    /\ logoutInFlight < MaxLogoutInFlight
    /\ logoutInFlight' = logoutInFlight + 1
    /\ UNCHANGED <<user, isAuthenticated, isLoading, verifyInFlight, verifyOutcome, rendered,
                   loginVars>>

\* The variant of logout whose finally block forgets setUser(null).
LogoutResponseKeepsUser ==
    /\ logoutInFlight > 0
    /\ logoutInFlight' = logoutInFlight - 1
    /\ isAuthenticated' = FALSE
    /\ rendered' = AppFC(isLoading, isAuthenticated')
    /\ LoginRender(rendered', loginLoading, loginError, loginReqs)
    /\ UNCHANGED <<user, isLoading, verifyInFlight, verifyOutcome, loginOutcome, nSubmit,
                   nOnLoginSuccess>>

\* logout after its fetch has been answered or rejected: the finally block.
LogoutResponse ==
    /\ logoutInFlight > 0
    /\ logoutInFlight' = logoutInFlight - 1
    /\ user' = NoUser
    /\ isAuthenticated' = FALSE
    /\ rendered' = AppFC(isLoading, isAuthenticated')
    /\ LoginRender(rendered', loginLoading, loginError, loginReqs)
    /\ UNCHANGED <<isLoading, verifyInFlight, verifyOutcome, loginOutcome, nSubmit,
                   nOnLoginSuccess>>

\* Login.handleSubmit up to its fetch.  The form's fields and its submit
\* button are disabled while loading.
LoginSubmit ==
    /\ rendered = "login"
    /\ ~loginLoading
    /\ nSubmit < MaxSubmit
    /\ nSubmit' = nSubmit + 1
    /\ loginLoading' = TRUE
    /\ loginError' = EmptyString
    /\ loginReqs' = loginReqs \cup {[id |-> nSubmit', mounted |-> TRUE]}
    /\ UNCHANGED <<authVars, loginOutcome, nOnLoginSuccess>>

\* The variant of LoginErrorOf without the 'Login failed' default.
LoginErrorOfNoDefault(a) ==
    IF a.kind = "body" THEN a.message ELSE NetworkError

\* The error handleSubmit sets for an answer that is not a success.
LoginErrorOf(a) ==
    IF a.kind = "body"
    THEN (IF a.message # EmptyString THEN a.message ELSE LoginFailed)
    ELSE NetworkError

\* Login.handleSubmit after its fetch has been answered: onLoginSuccess is
\* AuthProvider's login.
LoginResponse ==
    \E r \in loginReqs, a \in LoginAnswers :
        LET ok == a.kind = "body" /\ a.success
        IN  /\ IF ok
               THEN /\ user' = a.user
                    /\ isAuthenticated' = TRUE
                    /\ nOnLoginSuccess' = nOnLoginSuccess + 1
               ELSE UNCHANGED <<user, isAuthenticated, nOnLoginSuccess>>
            /\ rendered' = AppFC(isLoading, isAuthenticated')
            /\ IF r.mounted
               THEN LoginRender(rendered', FALSE,
                                IF ok THEN loginError ELSE LoginErrorOf(a),
                                loginReqs \ {r})
               ELSE LoginRender(rendered', loginLoading, loginError, loginReqs \ {r})
            /\ loginOutcome' = [kind |-> a.kind, success |-> a.success,
                                message |-> a.message, user |-> a.user,
                                mounted |-> r.mounted]
            /\ UNCHANGED <<isLoading, verifyInFlight, logoutInFlight, verifyOutcome, nSubmit>>

(***************************************************************************)
(* DatabaseIndexer                                                         *)
(*                                                                         *)
(* DatabaseIndexerContent is the content of a Dialog, which mounts it when *)
(* it opens and unmounts it when it closes.  A request outlives the        *)
(* instance that sent it: its continuation still runs, but the setState    *)
(* calls of an unmounted instance change nothing.  The requests in flight  *)
(* are kept in the order they were sent and answered in any order.         *)
(* dataLoaderType, useAIDescriptions, compactIndex, expandedSchemas and    *)
(* activeTab only select what is sent or drawn and are left out.           *)
(***************************************************************************)
\* The model keeps at most this many requests in flight, and at most this
\* many progress requests per polling interval; it stops starting
\* handleIndexDatabase after MaxIndexCalls calls.
MaxInFlight == 2
MaxPollsInFlight == 1
MaxIndexCalls == 1

NoMessage == [type |-> "none", text |-> EmptyString]
NoSchema == [database_id |-> 0, total_tables |-> 0]
NoList == [databases |-> <<>>, stale |-> FALSE, any |-> FALSE]

\* data.databases: lists of database ids the server may answer with.
DatabaseLists == {<<>>, <<1>>, <<1, 2>>}

\* data.schema
Schemas == {[database_id |-> 1, total_tables |-> 3], [database_id |-> 2, total_tables |-> 4]}

\* How a request whose body is read with response.json() can fail: fetch or
\* response.json() throws, or the body has a status other than 'success',
\* with a message or without (EmptyString also stands for no message).
Rejected == [kind |-> "reject", status |-> "none", message |-> EmptyString]
Failures ==
    {Rejected} \cup
    {[kind |-> "body", status |-> "error", message |-> m] : m \in {EmptyString, "Server error"}}

\* data.message || fallback
MessageOr(a, fallback) ==
    IF a.kind = "body" /\ a.message # EmptyString THEN a.message ELSE fallback

ErrorMessage(text) == [type |-> "error", text |-> text]
SuccessMessage(text) == [type |-> "success", text |-> text]

Request(op, mounted, call) == [op |-> op, mounted |-> mounted, stale |-> FALSE, call |-> call]

\* A sequence without its i-th element.
RemoveAt(s, i) == SubSeq(s, 1, i - 1) \o SubSeq(s, i + 1, Len(s))

Range(s) == {s[i] : i \in DOMAIN s}

\* The requests in flight once a successful answer to the list request at
\* position i has been applied: the list requests sent before it are marked,
\* their answers are now older than what is shown.
MarkOlder(reqs, i) ==
    [j \in DOMAIN reqs |->
        IF j < i /\ reqs[j].op = reqs[i].op /\ reqs[j].mounted = reqs[i].mounted
        THEN [reqs[j] EXCEPT !.stale = TRUE] ELSE reqs[j]]

\* The record of a failed request: whether the instance was mounted and
\* whether an error message was on display once the failure had been handled.
Failure(op, mounted, shown) == [op |-> op, mounted |-> mounted, shown |-> shown]
NoFailure == Failure("none", FALSE, FALSE)

\* The useState values of DatabaseIndexerContent.
IndexerFresh(dbs, selected, schemaOpen, loading, msg, lastList, lastSchema) ==
    /\ dbs = <<>>
    /\ selected = NoSchema
    /\ schemaOpen = FALSE
    /\ loading = FALSE
    /\ msg = NoMessage
    /\ lastList = NoList
    /\ lastSchema = NoSchema

\* The useState values of DatabaseIndexerContent, continued: the search, the
\* index form and the progress display.
IndexingFresh(results, query, srch, dlg, name, params, ixing, prog, msg, total, done) ==
    /\ results = <<>>
    /\ query = <<>>
    /\ srch = FALSE
    /\ dlg = FALSE
    /\ name = EmptyString
    /\ params = [server |-> EmptyString]
    /\ ixing = FALSE
    /\ prog = 0
    /\ msg = EmptyString
    /\ total = 0
    /\ done = 0

IndexerInit ==
    /\ ixOpen = FALSE
    /\ ixReqs = <<>>
    /\ intervals = {}
    /\ nIndexCalls = 0
    /\ failureLog = NoFailure
    /\ IndexerFresh(ixIndexedDatabases, selectedDatabase, schemaDialogOpen, ixLoading,
                    ixMessage, ixLastList, ixLastSchema)
    /\ IndexingFresh(searchResults, searchQuery, searching, indexDialogOpen, connectionName,
                     connectionParams, indexing, progress, progressMessage, totalTables,
                     processedTables)

\* The button of DatabaseIndexer: the dialog opens, DatabaseIndexerContent is
\* mounted and its mount effect calls loadIndexedDatabases, n times (twice
\* under React.StrictMode in a development build).  A Dialog is modal: the
\* button cannot be pressed while the chat's dialog is open.
IxOpen ==
    /\ ~ixOpen
    /\ ~chatOpen
    /\ \E n \in {1, 2} :
        /\ Len(ixReqs) + n <= MaxInFlight
        /\ ixReqs' = ixReqs \o [i \in 1..n |-> Request("list", TRUE, 0)]
    /\ ixOpen' = TRUE
    /\ ixLoading' = TRUE
    /\ UNCHANGED <<ixIndexedDatabases, selectedDatabase, schemaDialogOpen, ixMessage,
                   ixLastList, ixLastSchema, failureLog>>
    /\ UNCHANGED <<searchVars, indexingVars>>

\* Close, or the dialog's onClose: DatabaseIndexerContent is unmounted.  Its
\* requests stay in flight and its intervals stay set.
IxClose ==
    /\ ixOpen
    /\ ixOpen' = FALSE
    /\ ixReqs' = [i \in DOMAIN ixReqs |-> [ixReqs[i] EXCEPT !.mounted = FALSE]]
    /\ intervals' = {[t EXCEPT !.mounted = FALSE] : t \in intervals}
    /\ IndexerFresh(ixIndexedDatabases', selectedDatabase', schemaDialogOpen', ixLoading',
                    ixMessage', ixLastList', ixLastSchema')
    /\ IndexingFresh(searchResults', searchQuery', searching', indexDialogOpen',
                     connectionName', connectionParams', indexing', progress', progressMessage',
                     totalTables', processedTables')
    /\ UNCHANGED <<nIndexCalls, failureLog>>

\* The refresh button: loadIndexedDatabases up to its fetch.
IxLoadStart ==
    /\ ixOpen
    /\ ~ixLoading
    /\ Len(ixReqs) < MaxInFlight
    /\ ixLoading' = TRUE
    /\ ixReqs' = Append(ixReqs, Request("list", TRUE, 0))
    /\ UNCHANGED <<ixOpen, ixIndexedDatabases, selectedDatabase, schemaDialogOpen, ixMessage,
                   ixLastList, ixLastSchema, failureLog>>
    /\ UNCHANGED <<searchVars, indexingVars>>

\* The variant of loadIndexedDatabases that empties the list when the
\* request fails.
IxLoadFailedClearsList(a) ==
    /\ ixIndexedDatabases' = <<>>
    /\ ixMessage' = ErrorMessage(MessageOr(a, "Failed to load indexed databases"))

\* loadIndexedDatabases when the request has failed: the else branch and
\* the catch block.
IxLoadFailed(a) ==
    /\ ixIndexedDatabases' = ixIndexedDatabases
    /\ ixMessage' = ErrorMessage(MessageOr(a, "Failed to load indexed databases"))

\* The variant of IxLoadApplies that drops the answer of a request sent
\* before one whose answer is already shown.
IxLoadAppliesNewestOnly(r) == ~r.stale

\* Whether loadIndexedDatabases applies a successful answer to request r:
\* always, there is no cancellation and no check of the request's age.
IxLoadApplies(r) == TRUE

\* loadIndexedDatabases after its fetch has been answered.
IxLoadResponse ==
    \E i \in DOMAIN ixReqs :
        /\ ixReqs[i].op = "list"
        /\ IF ~ixReqs[i].mounted
           THEN /\ ixReqs' = RemoveAt(ixReqs, i)
                /\ UNCHANGED <<ixIndexedDatabases, ixMessage, ixLoading, ixLastList, failureLog>>
           ELSE \/ \E dbs \in DatabaseLists :
                     /\ IF IxLoadApplies(ixReqs[i])
                        THEN ixIndexedDatabases' = dbs
                        ELSE ixIndexedDatabases' = ixIndexedDatabases
                     /\ ixLastList' = [databases |-> dbs, stale |-> ixReqs[i].stale,
                                       any |-> TRUE]
                     /\ ixReqs' = RemoveAt(MarkOlder(ixReqs, i), i)
                     /\ ixLoading' = FALSE
                     /\ UNCHANGED <<ixMessage, failureLog>>
                \/ \E a \in Failures :
                     /\ IxLoadFailed(a)
                     /\ failureLog' = Failure("list", TRUE, ixMessage'.type = "error")
                     /\ ixReqs' = RemoveAt(ixReqs, i)
                     /\ ixLoading' = FALSE
                     /\ UNCHANGED ixLastList
    /\ UNCHANGED <<ixOpen, selectedDatabase, schemaDialogOpen, ixLastSchema>>
    /\ UNCHANGED <<searchVars, indexingVars>>

\* 'View Schema' in a row of the table, which is drawn when loading is
\* false: handleViewSchema up to its fetch.
IxViewSchemaStart ==
    /\ ixOpen
    /\ ~ixLoading
    /\ ixIndexedDatabases # <<>>
    /\ Len(ixReqs) < MaxInFlight
    /\ ixLoading' = TRUE
    /\ ixReqs' = Append(ixReqs, Request("schema", TRUE, 0))
    /\ UNCHANGED <<ixOpen, ixIndexedDatabases, selectedDatabase, schemaDialogOpen, ixMessage,
                   ixLastList, ixLastSchema, failureLog>>
    /\ UNCHANGED <<searchVars, indexingVars>>

\* handleViewSchema after its fetch has been answered.
IxViewSchemaResponse ==
    \E i \in DOMAIN ixReqs :
        /\ ixReqs[i].op = "schema"
        /\ ixReqs' = RemoveAt(ixReqs, i)
        /\ IF ~ixReqs[i].mounted
           THEN UNCHANGED <<selectedDatabase, schemaDialogOpen, ixMessage, ixLoading,
                            ixLastSchema, failureLog>>
           ELSE \/ \E schema \in Schemas :
                     /\ selectedDatabase' = schema
                     /\ schemaDialogOpen' = TRUE
                     /\ ixLastSchema' = schema
                     /\ ixLoading' = FALSE
                     /\ UNCHANGED <<ixMessage, failureLog>>
                \/ \E a \in Failures :
                     /\ ixMessage' = ErrorMessage(MessageOr(a, "Failed to load database schema"))
                     /\ failureLog' = Failure("schema", TRUE, ixMessage'.type = "error")
                     /\ ixLoading' = FALSE
                     /\ UNCHANGED <<selectedDatabase, schemaDialogOpen, ixLastSchema>>
    /\ UNCHANGED <<ixOpen, ixIndexedDatabases, ixLastList>>
    /\ UNCHANGED <<searchVars, indexingVars>>

\* The schema dialog's Close button or onClose.
IxCloseSchemaDialog ==
    /\ ixOpen
    /\ schemaDialogOpen
    /\ schemaDialogOpen' = FALSE
    /\ UNCHANGED <<ixOpen, ixReqs, ixIndexedDatabases, selectedDatabase, ixLoading, ixMessage,
                   ixLastList, ixLastSchema, failureLog>>
    /\ UNCHANGED <<searchVars, indexingVars>>

\* The Alert's onClose.
IxCloseMessage ==
    /\ ixOpen
    /\ ixMessage # NoMessage
    /\ ixMessage' = NoMessage
    /\ UNCHANGED <<ixOpen, ixReqs, ixIndexedDatabases, selectedDatabase, schemaDialogOpen,
                   ixLoading, ixLastList, ixLastSchema, failureLog>>
    /\ UNCHANGED <<searchVars, indexingVars>>

\* The delete button in a row of the table, confirmed in window.confirm:
\* handleDeleteDatabase up to its fetch.
IxDeleteStart ==
    /\ ixOpen
    /\ ~ixLoading
    /\ ixIndexedDatabases # <<>>
    /\ Len(ixReqs) < MaxInFlight
    /\ ixReqs' = Append(ixReqs, Request("delete", TRUE, 0))
    /\ UNCHANGED <<ixOpen, ixIndexedDatabases, selectedDatabase, schemaDialogOpen, ixLoading,
                   ixMessage, ixLastList, ixLastSchema, failureLog>>
    /\ UNCHANGED <<searchVars, indexingVars>>

\* handleDeleteDatabase after its fetch has been answered; on success it
\* calls loadIndexedDatabases.
IxDeleteResponse ==
    \E i \in DOMAIN ixReqs :
        /\ ixReqs[i].op = "delete"
        /\ \/ /\ ixReqs' = Append(RemoveAt(ixReqs, i), Request("list", ixReqs[i].mounted, 0))
              /\ IF ixReqs[i].mounted
                 THEN /\ ixMessage' = SuccessMessage("Database index deleted successfully")
                      /\ ixLoading' = TRUE
                 ELSE UNCHANGED <<ixMessage, ixLoading>>
              /\ UNCHANGED failureLog
           \/ /\ ixReqs' = RemoveAt(ixReqs, i)
              /\ IF ixReqs[i].mounted
                 THEN \E a \in Failures :
                        /\ ixMessage' = ErrorMessage(MessageOr(a, "Failed to delete database index"))
                        /\ failureLog' = Failure("delete", TRUE, ixMessage'.type = "error")
                 ELSE UNCHANGED <<ixMessage, failureLog>>
              /\ UNCHANGED ixLoading
    /\ UNCHANGED <<ixOpen, ixIndexedDatabases, selectedDatabase, schemaDialogOpen,
                   ixLastList, ixLastSchema>>
    /\ UNCHANGED <<searchVars, indexingVars>>

\* What the user may type into the search field, and data.results.
SearchInputs == [queries |-> {<<>>, <<" ">>, <<"o", "r", "d">>},
                 results |-> {<<>>, <<"orders">>}]

\* String.prototype.trim
RECURSIVE TrimEnd(_)
TrimEnd(s) ==
    IF s # <<>> /\ s[Len(s)] \in WhiteSpace THEN TrimEnd(SubSeq(s, 1, Len(s) - 1)) ELSE s

Trim(s) == TrimEnd(SkipWhiteSpace(s))

IxEditSearchQuery ==
    /\ ixOpen
    /\ schemaDialogOpen
    /\ \E q \in SearchInputs.queries : searchQuery' = q
    /\ UNCHANGED <<indexerVars, searchResults, searching, indexingVars, failureLog>>

\* The Search button of the schema dialog: handleSearchTables up to its
\* fetch.
IxSearchStart ==
    /\ ixOpen
    /\ schemaDialogOpen
    /\ selectedDatabase # NoSchema
    /\ ~searching
    /\ IF Trim(searchQuery) = <<>>
       THEN /\ searchResults' = <<>>
            /\ UNCHANGED <<searching, ixReqs>>
       ELSE /\ Len(ixReqs) < MaxInFlight
            /\ searching' = TRUE
            /\ ixReqs' = Append(ixReqs, Request("search", TRUE, 0))
            /\ UNCHANGED searchResults
    /\ UNCHANGED <<ixOpen, ixIndexedDatabases, selectedDatabase, schemaDialogOpen, ixLoading,
                   ixMessage, ixLastList, ixLastSchema, searchQuery, indexingVars, failureLog>>

\* handleSearchTables after its fetch has been answered.
IxSearchResponse ==
    \E i \in DOMAIN ixReqs :
        /\ ixReqs[i].op = "search"
        /\ ixReqs' = RemoveAt(ixReqs, i)
        /\ IF ~ixReqs[i].mounted
           THEN UNCHANGED <<searchResults, searching, ixMessage, failureLog>>
           ELSE \/ \E results \in SearchInputs.results :
                     /\ searchResults' = results
                     /\ searching' = FALSE
                     /\ UNCHANGED <<ixMessage, failureLog>>
                \/ \E a \in Failures :
                     /\ ixMessage' = ErrorMessage(MessageOr(a, "Search failed"))
                     /\ failureLog' = Failure("search", TRUE, ixMessage'.type = "error")
                     /\ searching' = FALSE
                     /\ UNCHANGED searchResults
    /\ UNCHANGED <<ixOpen, ixIndexedDatabases, selectedDatabase, schemaDialogOpen, ixLoading,
                   ixLastList, ixLastSchema, searchQuery, indexingVars>>

\* 'Index New Database'
IxOpenIndexDialog ==
    /\ ixOpen
    /\ ~indexDialogOpen
    /\ indexDialogOpen' = TRUE
    /\ UNCHANGED <<indexerVars, searchVars, connectionName, connectionParams, progressVars,
                   indexing, intervals, nIndexCalls, failureLog>>

\* Cancel or onClose of the index dialog, also while indexing.
IxCancelIndexDialog ==
    /\ ixOpen
    /\ indexDialogOpen
    /\ indexDialogOpen' = FALSE
    /\ UNCHANGED <<indexerVars, searchVars, connectionName, connectionParams, progressVars,
                   indexing, intervals, nIndexCalls, failureLog>>

\* What the user may type as connection name and as server.
FormInputs == [names |-> {EmptyString, "sales"}, servers |-> {EmptyString, "db01"}]

IxEditConnectionName ==
    /\ ixOpen
    /\ indexDialogOpen
    /\ \E name \in FormInputs.names : connectionName' = name
    /\ UNCHANGED <<indexerVars, searchVars, indexDialogOpen, connectionParams, progressVars,
                   indexing, intervals, nIndexCalls, failureLog>>

IxEditServer ==
    /\ ixOpen
    /\ indexDialogOpen
    /\ \E server \in FormInputs.servers : connectionParams' = [connectionParams EXCEPT !.server = server]
    /\ UNCHANGED <<indexerVars, searchVars, indexDialogOpen, connectionName, progressVars,
                   indexing, intervals, nIndexCalls, failureLog>>

\* A progress interval: the handleIndexDatabase call that set it, and whether
\* that call's instance is mounted.
Interval(call, mounted) == [call |-> call, mounted |-> mounted]

\* The intervals left once clearInterval has run for the interval of a call.
ClearInterval(set, call) == {t \in set : t.call # call}

\* The 'Index Database' button: handleIndexDatabase up to its first await.
\* The index request is sent and the progress interval is set.
IxIndexStart ==
    /\ ixOpen
    /\ indexDialogOpen
    /\ ~indexing
    /\ connectionName # EmptyString
    /\ connectionParams.server # EmptyString
    /\ nIndexCalls < MaxIndexCalls
    /\ Len(ixReqs) < MaxInFlight
    /\ nIndexCalls' = nIndexCalls + 1
    /\ indexing' = TRUE
    /\ progress' = 0
    /\ progressMessage' = "Starting database indexing..."
    /\ totalTables' = 0
    /\ processedTables' = 0
    /\ ixReqs' = Append(ixReqs, Request("index", TRUE, nIndexCalls'))
    /\ intervals' = intervals \cup {Interval(nIndexCalls', TRUE)}
    /\ UNCHANGED <<ixOpen, ixIndexedDatabases, selectedDatabase, schemaDialogOpen, ixLoading,
                   ixMessage, ixLastList, ixLastSchema, searchVars, formVars, failureLog>>

\* progressData.progress of a successful progress answer.
ProgressReports ==
    {[progress |-> 40, message |-> "Indexing tables", total_tables |-> 5,
      processed_tables |-> 2, status |-> "running"],
     [progress |-> 100, message |-> "Done", total_tables |-> 5,
      processed_tables |-> 5, status |-> "completed"],
     [progress |-> 40, message |-> "Failed", total_tables |-> 5,
      processed_tables |-> 2, status |-> "error"]}

\* The interval's callback up to its fetch, once a second while the interval
\* is set.
IxPollTick ==
    \E t \in intervals :
        /\ Len(ixReqs) < MaxInFlight
        /\ Cardinality({i \in DOMAIN ixReqs :
                            ixReqs[i].op = "progress" /\ ixReqs[i].call = t.call})
               < MaxPollsInFlight
        /\ ixReqs' = Append(ixReqs, Request("progress", t.mounted, t.call))
        /\ UNCHANGED <<ixOpen, ixIndexedDatabases, selectedDatabase, schemaDialogOpen,
                       ixLoading, ixMessage, ixLastList, ixLastSchema, searchVars,
                       indexingVars, failureLog>>

\* The interval's callback after its fetch has been answered.
IxPollResponse ==
    \E i \in DOMAIN ixReqs :
        /\ ixReqs[i].op = "progress"
        /\ ixReqs' = RemoveAt(ixReqs, i)
        /\ \/ \E prog \in ProgressReports :
                /\ IF ixReqs[i].mounted
                   THEN /\ progress' = prog.progress
                        /\ progressMessage' = prog.message
                        /\ totalTables' = prog.total_tables
                        /\ processedTables' = prog.processed_tables
                   ELSE UNCHANGED progressVars
                /\ intervals' = IF prog.status \in {"completed", "error"}
                                THEN ClearInterval(intervals, ixReqs[i].call)
                                ELSE intervals
                /\ UNCHANGED failureLog
           \/ \* another status, or the fetch failed (console.error)
              /\ failureLog' = Failure("progress", ixReqs[i].mounted, FALSE)
              /\ UNCHANGED <<progressVars, intervals>>
        /\ UNCHANGED <<ixOpen, ixIndexedDatabases, selectedDatabase, schemaDialogOpen,
                       ixLoading, ixMessage, ixLastList, ixLastSchema, searchVars, formVars,
                       indexing, nIndexCalls>>

\* The variant of the failure path that also closes the index dialog.
IxIndexFailedClosesDialog(a) ==
    /\ progress' = 0
    /\ progressMessage' = "Indexing failed"
    /\ ixMessage' = ErrorMessage(MessageOr(a, "Failed to index database"))
    /\ failureLog' = Failure("index", TRUE, ixMessage'.type = "error")
    /\ indexing' = FALSE
    /\ indexDialogOpen' = FALSE
    /\ UNCHANGED <<connectionName, connectionParams, ixLoading>>

\* handleIndexDatabase when indexing has failed: the else branch and the catch
\* block, then the finally block.
IxIndexFailed(a) ==
    /\ progress' = 0
    /\ progressMessage' = "Indexing failed"
    /\ ixMessage' = ErrorMessage(MessageOr(a, "Failed to index database"))
    /\ failureLog' = Failure("index", TRUE, ixMessage'.type = "error")
    /\ indexing' = FALSE
    /\ UNCHANGED <<formVars, ixLoading>>

\* handleIndexDatabase after the index request has been answered.  A rejected
\* fetch throws at 'await indexingPromise', before clearInterval; an answer
\* whose body cannot be read throws after it.
IxIndexResponse ==
    \E i \in DOMAIN ixReqs :
        LET r == ixReqs[i]
            unmounted == UNCHANGED <<progress, progressMessage, ixMessage, failureLog,
                                     indexing, formVars, ixLoading>>
        IN  /\ r.op = "index"
            /\ \/ \* the fetch is rejected
                  /\ ixReqs' = RemoveAt(ixReqs, i)
                  /\ UNCHANGED intervals
                  /\ IF r.mounted THEN IxIndexFailed(Rejected) ELSE unmounted
               \/ \* response.json() throws, or data.status is not 'success'
                  /\ ixReqs' = RemoveAt(ixReqs, i)
                  /\ intervals' = ClearInterval(intervals, r.call)
                  /\ IF r.mounted THEN \E a \in Failures \ {Rejected} : IxIndexFailed(a)
                     ELSE unmounted
               \/ \* data.status is 'success': loadIndexedDatabases is called
                  /\ ixReqs' = Append(RemoveAt(ixReqs, i), Request("list", r.mounted, 0))
                  /\ intervals' = ClearInterval(intervals, r.call)
                  /\ IF r.mounted
                     THEN /\ progress' = 100
                          /\ progressMessage' = "Database indexing completed successfully!"
                          /\ ixMessage' = SuccessMessage("Database indexed successfully!")
                          /\ indexDialogOpen' = FALSE
                          /\ ixLoading' = TRUE
                          /\ connectionName' = EmptyString
                          /\ connectionParams' = [server |-> EmptyString]
                          /\ indexing' = FALSE
                          /\ UNCHANGED failureLog
                     ELSE unmounted
            /\ UNCHANGED <<ixOpen, ixIndexedDatabases, selectedDatabase, schemaDialogOpen,
                           ixLastList, ixLastSchema, searchVars, totalTables, processedTables,
                           nIndexCalls>>

(***************************************************************************)
(* NLPChat (src/src/components/NLPChat.tsx): the list of indexed databases *)
(* and the selected one.                                                   *)
(***************************************************************************)
NoDatabaseId == 0

\* The import dialog before handleExecuteSQL has opened it; the model names
\* an SQL query by the number of the call that generated it, '' is 0.
ClosedImportDialog == [open |-> FALSE, sql |-> 0, tableName |-> ""]

ChatInit ==
    /\ chatOpen = FALSE
    /\ chatReqs = <<>>
    /\ chatIndexedDatabases = <<>>
    /\ selectedDatabaseId = NoDatabaseId
    /\ chatMessage = NoMessage
    /\ chatLastList = NoList
    /\ inputQuery = <<>>
    /\ chatLoading = FALSE
    /\ translating = FALSE
    /\ autoTranslate = TRUE
    /\ messages = <<>>
    /\ enhancementMode = 0
    /\ enhancementQuery = <<>>
    /\ sendCalls = <<>>
    /\ nSendCalls = 0
    /\ importDialog = ClosedImportDialog
    /\ importCalls = <<>>
    /\ nImportCalls = 0
    /\ loadTableLog = <<>>
    /\ importLog = [call |-> 0]

\* The button of NLPChat: the dialog opens, NLPChatContent is mounted and its
\* mount effect calls loadIndexedDatabases, n times (twice under
\* React.StrictMode in a development build).  A Dialog is modal: the button
\* cannot be pressed while the indexer's dialog is open.
ChatOpen ==
    /\ ~chatOpen
    /\ ~ixOpen
    /\ \E n \in {1, 2} :
        /\ Len(chatReqs) + n <= MaxInFlight
        /\ chatReqs' = chatReqs \o [i \in 1..n |-> Request("list", TRUE, 0)]
    /\ chatOpen' = TRUE
    /\ UNCHANGED <<chatIndexedDatabases, selectedDatabaseId, chatMessage, chatLastList,
                   failureLog>>

\* Close, or the dialog's onClose: NLPChatContent is unmounted, the calls it
\* has in progress go on without it.  The import dialog is a modal dialog
\* above this one: while it is open, it is the one that closes.
ChatClose ==
    /\ chatOpen
    /\ ~importDialog.open
    /\ chatOpen' = FALSE
    /\ chatReqs' = [i \in DOMAIN chatReqs |-> [chatReqs[i] EXCEPT !.mounted = FALSE]]
    /\ chatIndexedDatabases' = <<>>
    /\ selectedDatabaseId' = NoDatabaseId
    /\ chatMessage' = NoMessage
    /\ chatLastList' = NoList
    /\ inputQuery' = <<>>
    /\ chatLoading' = FALSE
    /\ translating' = FALSE
    /\ autoTranslate' = TRUE
    /\ messages' = <<>>
    /\ enhancementMode' = 0
    /\ enhancementQuery' = <<>>
    /\ sendCalls' = [i \in DOMAIN sendCalls |-> [sendCalls[i] EXCEPT !.mounted = FALSE]]
    /\ importDialog' = ClosedImportDialog
    /\ importCalls' = [i \in DOMAIN importCalls |-> [importCalls[i] EXCEPT !.mounted = FALSE]]
    /\ UNCHANGED <<failureLog, nSendCalls, nImportCalls, loadTableLog, importLog>>

\* The Database select: one of the listed databases is chosen.
ChatSelectDatabase ==
    /\ chatOpen
    /\ \E id \in Range(chatIndexedDatabases) : selectedDatabaseId' = id
    /\ UNCHANGED <<chatOpen, chatReqs, chatIndexedDatabases, chatMessage, chatLastList,
                   failureLog>>

\* loadIndexedDatabases after its fetch has been answered.  It runs in the
\* closure of the first render, where selectedDatabaseId is null.  A status
\* other than 'success' is ignored and a rejected fetch is logged to the
\* console.
ChatLoadResponse ==
    \E i \in DOMAIN chatReqs :
        /\ chatReqs' = RemoveAt(chatReqs, i)
        /\ UNCHANGED <<chatOpen, chatMessage>>
        /\ IF ~chatReqs[i].mounted
           THEN UNCHANGED <<chatIndexedDatabases, selectedDatabaseId, chatLastList, failureLog>>
           ELSE \/ \E dbs \in DatabaseLists :
                     /\ chatIndexedDatabases' = dbs
                     /\ chatLastList' = [databases |-> dbs, stale |-> FALSE, any |-> TRUE]
                     /\ selectedDatabaseId' = IF Len(dbs) > 0 THEN dbs[1]
                                              ELSE selectedDatabaseId
                     /\ UNCHANGED failureLog
                \/ \E a \in Failures :
                     /\ failureLog' = Failure("chat list", TRUE,
                                              chatMessage' # chatMessage
                                                  /\ chatMessage'.type = "error")
                     /\ UNCHANGED <<chatIndexedDatabases, selectedDatabaseId, chatLastList>>

(***************************************************************************)
(* Translation helpers (src/src/utils/translationUtils.test.ts:88-290).    *)
(*                                                                         *)
(* The Turkish letters are written "_c" (c with cedilla), "_g" (g with     *)
(* breve), "_i" (dotless i), "_o", "_s", "_u", their capitals "_C", "_G",  *)
(* "_I" (dotted capital I), "_O", "_S", "_U", and "_dot" is the combining  *)
(* dot that toLowerCase puts after the i of a dotted capital I.  A         *)
(* confidence is counted in thousandths: 0.95 is 950.                      *)
(***************************************************************************)
LowerLetters ==
    <<"a", "b", "c", "d", "e", "f", "g", "h", "i", "j", "k", "l", "m", "n", "o", "p", "q",
      "r", "s", "t", "u", "v", "w", "x", "y", "z">>

UpperLetters ==
    <<"A", "B", "C", "D", "E", "F", "G", "H", "I", "J", "K", "L", "M", "N", "O", "P", "Q",
      "R", "S", "T", "U", "V", "W", "X", "Y", "Z">>

\* \w of a regular expression without the u flag: ASCII only.
IsWordChar(c) ==
    \/ c \in Range(LowerLetters) \cup Range(UpperLetters) \cup {"_"}
    \/ DigitValue(c) < 10

\* String.prototype.toLowerCase, one character at a time.
LowerOf(c) ==
    IF c \in Range(UpperLetters)
    THEN <<LowerLetters[CHOOSE i \in DOMAIN UpperLetters : UpperLetters[i] = c]>>
    ELSE CASE c = "_C" -> <<"_c">>
           [] c = "_G" -> <<"_g">>
           [] c = "_I" -> <<"i", "_dot">>
           [] c = "_O" -> <<"_o">>
           [] c = "_S" -> <<"_s">>
           [] c = "_U" -> <<"_u">>
           [] OTHER -> <<c>>

RECURSIVE toLowerCase(_)
toLowerCase(s) ==
    IF s = <<>> THEN <<>> ELSE LowerOf(Head(s)) \o toLowerCase(Tail(s))

\* String.prototype.includes of a word that is not empty
includes(s, word) ==
    \E i \in 1..(Len(s) - Len(word) + 1) : SubSeq(s, i, i + Len(word) - 1) = word

\* /[...]/ : the Turkish letters, and the ASCII capital I
turkishChars ==
    {"_c", "_g", "_i", "_o", "_s", "_u", "_C", "_G", "I", "_I", "_O", "_S", "_U"}

\* The words isTurkishText looks for.
turkishWords ==
    <<<<"m", "_u", "_s", "t", "e", "r", "i">>, <<"s", "a", "t", "_i", "_s">>, <<"_u", "r",
      "_u", "n">>, <<"g", "_o", "s", "t", "e", "r">>, <<"l", "i", "s", "t", "e", "l",
      "e">>, <<"t", "o", "p", "l", "a">>, <<"h", "e", "s", "a", "p", "l", "a">>, <<"b",
      "u", "l">>, <<"a", "r", "a">>, <<"e", "n">>, <<"_c", "o", "k">>, <<"a", "z">>, <<"b",
      "_u", "y", "_u", "k">>, <<"k", "_u", "_c", "_u", "k">>, <<"t", "a", "r", "i", "h">>,
      <<"a", "y">>, <<"y", "_i", "l">>, <<"g", "_u", "n">>, <<"t", "o", "p", "l", "a",
      "m">>, <<"o", "r", "t", "a", "l", "a", "m", "a">>, <<"m", "a", "k", "s", "i", "m",
      "u", "m">>, <<"m", "i", "n", "i", "m", "u", "m">>, <<"a", "k", "t", "i", "f">>,
      <<"p", "a", "s", "i", "f">>, <<"_s", "i", "r", "k", "e", "t">>, <<"_c", "a", "l",
      "_i", "_s", "a", "n">>, <<"d", "e", "p", "a", "r", "t", "m", "a", "n">>, <<"s", "i",
      "p", "a", "r", "i", "_s">>, <<"g", "e", "l", "i", "r">>, <<"k", "a", "r">>, <<"s",
      "t", "o", "k">>, <<"e", "n", "v", "a", "n", "t", "e", "r">>, <<"k", "a", "t", "e",
      "g", "o", "r", "i">>, <<"m", "a", "r", "k", "a">>, <<"n", "e", "d", "i", "r">>,
      <<"n", "e", "r", "e", "d", "e">>, <<"n", "a", "s", "_i", "l">>, <<"h", "a", "n", "g",
      "i">>, <<"k", "a", "d", "a", "r">>, <<"t", "a", "n", "e">>, <<"a", "d", "e", "t">>,
      <<"o", "l", "a", "n">>, <<"o", "l", "m", "a", "y", "a", "n">>, <<"i", "l", "e">>,
      <<"v", "e">>, <<"v", "e", "y", "a">>, <<"d", "e", "n">>, <<"d", "a", "n">>, <<"a">>,
      <<"e">>, <<"d", "a">>, <<"d", "e">>, <<"t", "a">>, <<"t", "e">>>>

\* Detect if text contains Turkish characters or words.
isTurkishText(text) ==
    IF text = <<>> THEN FALSE
    ELSE IF \E i \in DOMAIN text : text[i] \in turkishChars THEN TRUE
    ELSE LET lowerText == toLowerCase(text)
         IN  \E k \in DOMAIN turkishWords : includes(lowerText, turkishWords[k])

\* The entries of simpleDictionaryTranslate's dictionary, in order: Turkish,
\* English.
basicDictionary ==
    <<<<<<"g", "_o", "s", "t", "e", "r">>, <<"s", "h", "o", "w">>>>, <<<<"b", "u", "l">>,
      <<"f", "i", "n", "d">>>>, <<<<"l", "i", "s", "t", "e", "l", "e">>, <<"l", "i", "s",
      "t">>>>, <<<<"e", "n", " ", "_c", "o", "k">>, <<"m", "o", "s", "t">>>>, <<<<"e", "n",
      " ", "a", "z">>, <<"l", "e", "a", "s", "t">>>>, <<<<"m", "_u", "_s", "t", "e", "r",
      "i">>, <<"c", "u", "s", "t", "o", "m", "e", "r">>>>, <<<<"m", "_u", "_s", "t", "e",
      "r", "i", "l", "e", "r">>, <<"c", "u", "s", "t", "o", "m", "e", "r", "s">>>>,
      <<<<"s", "a", "t", "_i", "_s">>, <<"s", "a", "l", "e", "s">>>>, <<<<"_u", "r", "_u",
      "n">>, <<"p", "r", "o", "d", "u", "c", "t">>>>, <<<<"_u", "r", "_u", "n", "l", "e",
      "r">>, <<"p", "r", "o", "d", "u", "c", "t", "s">>>>, <<<<"t", "o", "p", "l", "a",
      "m">>, <<"t", "o", "t", "a", "l">>>>, <<<<"o", "r", "t", "a", "l", "a", "m", "a">>,
      <<"a", "v", "e", "r", "a", "g", "e">>>>, <<<<"m", "a", "k", "s", "i", "m", "u",
      "m">>, <<"m", "a", "x", "i", "m", "u", "m">>>>, <<<<"m", "i", "n", "i", "m", "u",
      "m">>, <<"m", "i", "n", "i", "m", "u", "m">>>>, <<<<"t", "a", "r", "i", "h">>, <<"d",
      "a", "t", "e">>>>, <<<<"a", "y">>, <<"m", "o", "n", "t", "h">>>>, <<<<"y", "_i",
      "l">>, <<"y", "e", "a", "r">>>>, <<<<"g", "_u", "n">>, <<"d", "a", "y">>>>, <<<<"s",
      "t", "o", "k">>, <<"i", "n", "v", "e", "n", "t", "o", "r", "y">>>>, <<<<"g", "e",
      "l", "i", "r">>, <<"r", "e", "v", "e", "n", "u", "e">>>>, <<<<"k", "a", "r">>, <<"p",
      "r", "o", "f", "i", "t">>>>, <<<<"a", "k", "t", "i", "f">>, <<"a", "c", "t", "i",
      "v", "e">>>>, <<<<"p", "a", "s", "i", "f">>, <<"i", "n", "a", "c", "t", "i", "v",
      "e">>>>, <<<<"_s", "i", "r", "k", "e", "t">>, <<"c", "o", "m", "p", "a", "n",
      "y">>>>, <<<<"_c", "a", "l", "_i", "_s", "a", "n">>, <<"e", "m", "p", "l", "o", "y",
      "e", "e">>>>, <<<<"_c", "a", "l", "_i", "_s", "a", "n", "l", "a", "r">>, <<"e", "m",
      "p", "l", "o", "y", "e", "e", "s">>>>, <<<<"d", "e", "p", "a", "r", "t", "m", "a",
      "n">>, <<"d", "e", "p", "a", "r", "t", "m", "e", "n", "t">>>>, <<<<"s", "i", "p",
      "a", "r", "i", "_s">>, <<"o", "r", "d", "e", "r">>>>, <<<<"s", "i", "p", "a", "r",
      "i", "_s", "l", "e", "r">>, <<"o", "r", "d", "e", "r", "s">>>>, <<<<"k", "a", "t",
      "e", "g", "o", "r", "i">>, <<"c", "a", "t", "e", "g", "o", "r", "y">>>>, <<<<"m",
      "a", "r", "k", "a">>, <<"b", "r", "a", "n", "d">>>>, <<<<"n", "e", "d", "i", "r">>,
      <<"w", "h", "a", "t", " ", "i", "s">>>>, <<<<"n", "e", "r", "e", "d", "e">>, <<"w",
      "h", "e", "r", "e">>>>, <<<<"n", "a", "s", "_i", "l">>, <<"h", "o", "w">>>>, <<<<"h",
      "a", "n", "g", "i">>, <<"w", "h", "i", "c", "h">>>>, <<<<"k", "a", "d", "a", "r">>,
      <<"h", "o", "w", " ", "m", "u", "c", "h">>>>, <<<<"t", "a", "n", "e">>, <<"c", "o",
      "u", "n", "t">>>>, <<<<"a", "d", "e", "t">>, <<"c", "o", "u", "n", "t">>>>, <<<<"o",
      "l", "a", "n">>, <<"t", "h", "a", "t">>>>, <<<<"o", "l", "m", "a", "y", "a", "n">>,
      <<"n", "o", "t">>>>, <<<<"i", "l", "e">>, <<"w", "i", "t", "h">>>>, <<<<"v", "e">>,
      <<"a", "n", "d">>>>, <<<<"v", "e", "y", "a">>, <<"o", "r">>>>>>

\* \b at the position before the i-th character of s: exactly one of the
\* characters on its two sides is a word character.
WordBoundary(s, i) ==
    (i > 1 /\ IsWordChar(s[i - 1])) # (i <= Len(s) /\ IsWordChar(s[i]))

\* Whether /\bword\b/gi matches the lower-case text s at position i.
MatchesAt(s, i, word) ==
    /\ i + Len(word) - 1 <= Len(s)
    /\ SubSeq(s, i, i + Len(word) - 1) = word
    /\ WordBoundary(s, i)
    /\ WordBoundary(s, i + Len(word))

\* translatedText.replace(regex, english) from position i on.
RECURSIVE ReplaceFrom(_, _, _, _)
ReplaceFrom(s, i, word, english) ==
    IF i > Len(s) THEN <<>>
    ELSE IF MatchesAt(s, i, word)
         THEN english \o ReplaceFrom(s, i + Len(word), word, english)
         ELSE <<s[i]>> \o ReplaceFrom(s, i + 1, word, english)

\* Object.entries(basicDictionary).forEach from entry k on.
RECURSIVE ReplaceEntries(_, _)
ReplaceEntries(s, k) ==
    IF k > Len(basicDictionary) \/ Len(s) = 0   \* nothing to replace in ''
    THEN s
    ELSE ReplaceEntries(ReplaceFrom(s, 1, basicDictionary[k][1], basicDictionary[k][2]), k + 1)

simpleDictionaryTranslate(text) == ReplaceEntries(toLowerCase(text), 1)

TranslationResult(original, translated, was, conf) ==
    [originalText |-> original, translatedText |-> translated, wasTranslated |-> was,
     confidence |-> conf]

\* How the translate-query request can end: fetch throws, response.ok is
\* false, response.json() throws, or a body is read.  A body without
\* translated_text has <<>> for it, a body without confidence has -1.
TranslateAnswers ==
    {[kind |-> k, status |-> "none", translated_text |-> <<>>, confidence |-> -1] :
        k \in {"reject", "http", "json"}}
    \cup {[kind |-> "body", status |-> "error", translated_text |-> <<>>, confidence |-> -1]}
    \cup {[kind |-> "body", status |-> "success", translated_text |-> t, confidence |-> c] :
            t \in {<<>>, <<" ">>, <<" ", "t", "o", "p", " ">>}, c \in {-1, 0, 650, 800, 950}}

\* translateTurkishToEnglishWithLLM: the text needs no request.
NeedsNoRequest(text) == text = <<>> \/ ~isTurkishText(text)

\* translateTurkishToEnglishWithLLM: its result once the request has been
\* answered; its catch block falls back to the dictionary.  In
\* data.confidence || 0.9 an absent confidence and the number 0 are falsy.
LLMResult(text, a) ==
    IF a.kind = "body" /\ a.status = "success" /\ a.translated_text # <<>>
    THEN TranslationResult(text, Trim(a.translated_text), TRUE,
                           IF a.confidence \in {-1, 0} THEN 900 ELSE a.confidence)
    ELSE LET fallbackTranslation == simpleDictionaryTranslate(text)
         IN  TranslationResult(text, fallbackTranslation, fallbackTranslation # text, 600)

\* The variant of getTranslationSuggestions whose confidence test is <=.
LowConfidenceInclusive(confidence) == confidence <= 800

\* result.confidence < 0.8
LowConfidence(confidence) == confidence < 800

\* The 'Translated from Turkish' line, and the 'Translation confidence' line
\* with Math.round(result.confidence * 100) when the confidence is low.
getTranslationSuggestions(result) ==
    IF result.wasTranslated
    THEN <<[line |-> "Translated from Turkish", original |-> result.originalText,
            translated |-> result.translatedText, percent |-> 0]>>
         \o (IF LowConfidence(result.confidence)
             THEN <<[line |-> "Translation confidence", original |-> <<>>,
                     translated |-> <<>>, percent |-> (result.confidence + 5) \div 10]>>
             ELSE <<>>)
    ELSE <<>>

\* smartTranslateTurkishToEnglish: maxRetries = 2
DefaultMaxRetries == 2

\* The variant of the loop test that makes one attempt more.
LoopContinuesOnceMore(attempt, maxRetries) == attempt <= maxRetries + 1

\* smartTranslateTurkishToEnglish: attempt <= maxRetries
LoopContinues(attempt, maxRetries) == attempt <= maxRetries

\* The variant of the quality test that accepts an empty translation.
AcceptedEmpty(result) == result.wasTranslated

\* smartTranslateTurkishToEnglish: the result of an attempt is returned.
Accepted(result) == result.wasTranslated /\ Len(result.translatedText) > 0

\* The variant of the final fallback that keeps the text as it is.
FinalFallbackKeepsText(text) == TranslationResult(text, text, FALSE, 500)

\* smartTranslateTurkishToEnglish: the final fallback.
FinalFallback(text) ==
    LET fallbackTranslation == simpleDictionaryTranslate(text)
    IN  TranslationResult(text, fallbackTranslation, fallbackTranslation # text, 500)

\* The first attempt from k on that sends a request; an attempt for a text
\* that needs none ends at once with a result that is not accepted.
RECURSIVE NextAttempt(_, _, _)
NextAttempt(text, k, maxRetries) ==
    IF LoopContinues(k, maxRetries) /\ NeedsNoRequest(text)
    THEN NextAttempt(text, k + 1, maxRetries)
    ELSE k

\* The texts the functions are called with: "", "customer", "Top selling
\* customers", "m_u_steri", "En _cok sat_i_s yapan m_u_steriler", "sort by
\* wins", "ID", "_sirket", "M_u_steri g_oster".
Customer ==
    <<"c", "u", "s", "t", "o", "m", "e", "r">>

TopSellingCustomers ==
    <<"T", "o", "p", " ", "s", "e", "l", "l", "i", "n", "g", " ", "c", "u", "s", "t", "o",
      "m", "e", "r", "s">>

Musteri ==
    <<"m", "_u", "_s", "t", "e", "r", "i">>

EnCokSatis ==
    <<"E", "n", " ", "_c", "o", "k", " ", "s", "a", "t", "_i", "_s", " ", "y", "a", "p",
      "a", "n", " ", "m", "_u", "_s", "t", "e", "r", "i", "l", "e", "r">>

Texts ==
    {<<>>, Customer, TopSellingCustomers, Musteri, EnCokSatis,
     <<"s", "o", "r", "t", " ", "b", "y", " ", "w", "i", "n", "s">>,
     <<"I", "D">>,
     <<"_s", "i", "r", "k", "e", "t">>,
     <<"M", "_u", "_s", "t", "e", "r", "i", " ", "g", "_o", "s", "t", "e", "r">>}

NoResult == TranslationResult(<<>>, <<>>, FALSE, 0)

TranslateInit ==
    /\ trPhase = "idle"
    /\ trText = <<>>
    /\ trIsTurkish = FALSE
    /\ trAttempt = 0
    /\ nTranslateReqs = 0
    /\ trResult = NoResult
    /\ trSuggestions = <<>>
    /\ trWaits = <<>>
    /\ trAnswer = [kind |-> "none", status |-> "none", translated_text |-> <<>>,
                   confidence |-> -1]

\* A call of isTurkishText.
TrIsTurkishText ==
    /\ trPhase = "idle"
    /\ \E text \in Texts :
        /\ trText' = text
        /\ trIsTurkish' = isTurkishText(text)
    /\ trPhase' = "detected"
    /\ UNCHANGED <<trAttempt, nTranslateReqs, trResult, trSuggestions, trWaits, trAnswer>>

\* smartTranslateTurkishToEnglish from the head of its loop at attempt k up
\* to its next await, or to its return when the loop has ended.
SmartLoop(k, requests, last) ==
    LET n == NextAttempt(trText, k, DefaultMaxRetries)
    IN  /\ trAttempt' = n
        /\ IF LoopContinues(n, DefaultMaxRetries)
           THEN /\ trPhase' = "await"
                /\ nTranslateReqs' = requests + 1
                /\ trResult' = last
           ELSE /\ trPhase' = "done"
                /\ nTranslateReqs' = requests
                /\ trResult' = FinalFallback(trText)

\* A call of smartTranslateTurkishToEnglish(text, activeModel), up to its
\* first await or to its return.
TrSmartStart ==
    /\ trPhase = "detected"
    /\ SmartLoop(0, 0, trResult)
    /\ UNCHANGED <<trText, trIsTurkish, trSuggestions, trWaits, trAnswer>>

\* The translate-query request of the attempt is answered: the rest of
\* translateTurkishToEnglishWithLLM, then smartTranslateTurkishToEnglish up to
\* its next await or to its return.  translateTurkishToEnglishWithLLM returns
\* a result for every answer, its promise never rejects: the catch block of
\* smartTranslateTurkishToEnglish, the only place that awaits a timeout, is
\* not entered.
TrAnswer ==
    /\ trPhase = "await"
    /\ \E a \in TranslateAnswers :
        LET result == LLMResult(trText, a)
        IN  IF Accepted(result)
            THEN /\ trResult' = result
                 /\ trPhase' = "done"
                 /\ UNCHANGED <<trAttempt, nTranslateReqs>>
            ELSE SmartLoop(trAttempt + 1, nTranslateReqs, result)
    /\ UNCHANGED <<trText, trIsTurkish, trSuggestions, trWaits, trAnswer>>

\* A call of translateTurkishToEnglishWithLLM(text, activeModel), up to its
\* await or, for a text that needs no request, to its return.
TrLLMStart ==
    /\ trPhase = "detected"
    /\ IF NeedsNoRequest(trText)
       THEN /\ trResult' = TranslationResult(trText, trText, FALSE, 1000)
            /\ trPhase' = "returned"
            /\ UNCHANGED nTranslateReqs
       ELSE /\ nTranslateReqs' = nTranslateReqs + 1
            /\ trPhase' = "awaitLLM"
            /\ UNCHANGED trResult
    /\ UNCHANGED <<trText, trIsTurkish, trAttempt, trSuggestions, trWaits, trAnswer>>

\* The translate-query request of that call is answered: the rest of
\* translateTurkishToEnglishWithLLM.
TrLLMAnswer ==
    /\ trPhase = "awaitLLM"
    /\ \E a \in TranslateAnswers :
        /\ trAnswer' = a
        /\ trResult' = LLMResult(trText, a)
    /\ trPhase' = "returned"
    /\ UNCHANGED <<trText, trIsTurkish, trAttempt, nTranslateReqs, trSuggestions, trWaits>>

\* getTranslationSuggestions is applied to the result.
TrSuggest ==
    /\ trPhase = "done"
    /\ trSuggestions' = getTranslationSuggestions(trResult)
    /\ trPhase' = "suggested"
    /\ UNCHANGED <<trText, trIsTurkish, trAttempt, nTranslateReqs, trResult, trWaits, trAnswer>>

\* The next text.
TrNext ==
    /\ trPhase \in {"detected", "suggested", "returned"}
    /\ trPhase' = "idle"
    /\ trText' = <<>>
    /\ trIsTurkish' = FALSE
    /\ trAttempt' = 0
    /\ nTranslateReqs' = 0
    /\ trResult' = NoResult
    /\ trSuggestions' = <<>>
    /\ trWaits' = <<>>
    /\ trAnswer' = [kind |-> "none", status |-> "none", translated_text |-> <<>>,
                    confidence |-> -1]

(***************************************************************************)
(* NLPChat (src/src/components/NLPChat.tsx:183-309, 409-475): sending a    *)
(* query and enhancing a generated SQL query.  A call of handleSendQuery   *)
(* or handleEnhanceSQL is a record of sendCalls from its first await to    *)
(* its end: in phase "translate" it awaits smartTranslateTurkishToEnglish  *)
(* (its translate-query request of the attempt is in flight), in phase     *)
(* "query" its enhanced-nlp-to-sql request is in flight and natural_query  *)
(* is what that request carries.                                           *)
(***************************************************************************)
MaxSendCalls == 2

\* The chat variables that sending does not change.
listVars == <<chatOpen, chatIndexedDatabases, selectedDatabaseId, chatReqs, chatLastList,
              failureLog>>

\* What is typed into the input: "SUM" (not detected as Turkish),
\* "m_u_steri" (the dictionary has it) and "_sirket" (the dictionary leaves
\* it as it is).
ChatTexts ==
    {<<"S", "U", "M">>, Musteri, <<"_s", "i", "r", "k", "e", "t">>}

\* A call that has run up to its first await.
Call(n, kind, sql, text, phase, query) ==
    [call |-> n, kind |-> kind, sql |-> sql, original |-> text, phase |-> phase,
     attempt |-> NextAttempt(text, 0, DefaultMaxRetries), mounted |-> TRUE,
     database_id |-> selectedDatabaseId, natural_query |-> query,
     via |-> IF phase = "translate" THEN "pending" ELSE "none"]

\* handleEnhanceSQL: `Modify this SQL query: "${originalSQL}" to ${request}`
EnhancedQuery(originalSQL, request) ==
    <<"Modify this SQL query: ", ToString(originalSQL), " to ">> \o request

\* The variant that shows the 'Automatically translated' message after every
\* translation.
TranslationMessageAlways(c, result) ==
    <<[type |-> "assistant",
       content |-> <<"Automatically translated (",
                     ToString((result.confidence + 5) \div 10), "% confidence): ">>
                   \o result.originalText \o <<" -> ">> \o result.translatedText,
       call |-> c.call, sqlQuery |-> FALSE]>>

\* handleSendQuery: the 'Automatically translated' message, if any.
TranslationMessage(c, result) ==
    IF result.translatedText # result.originalText
    THEN <<[type |-> "assistant",
            content |-> <<"Automatically translated (",
                          ToString((result.confidence + 5) \div 10), "% confidence): ">>
                        \o result.originalText \o <<" -> ">> \o result.translatedText,
            call |-> c.call, sqlQuery |-> FALSE]>>
    ELSE <<>>

\* handleSendQuery from 'const userMessage' up to its fetch, and the finally
\* of the translation before it when there was one; a state update of an
\* unmounted instance does nothing.
ShowQuery(c, translationMessage, translated) ==
    IF c.mounted
    THEN /\ messages' = Append(messages, [type |-> "user", content |-> c.original,
                                          call |-> c.call, sqlQuery |-> FALSE])
                        \o translationMessage
         /\ inputQuery' = <<>>
         /\ chatLoading' = TRUE
         /\ translating' = IF translated THEN FALSE ELSE translating
    ELSE UNCHANGED <<messages, inputQuery, chatLoading, translating>>

\* The input field's onChange; the field is disabled while loading or
\* without a selected database.
ChatEditInput ==
    /\ chatOpen
    /\ ~chatLoading
    /\ selectedDatabaseId # NoDatabaseId
    /\ \E text \in ChatTexts \ {inputQuery} : inputQuery' = text
    /\ UNCHANGED <<listVars, chatMessage, chatLoading, translating, autoTranslate, messages,
                   enhancementMode, enhancementQuery, sendCalls, nSendCalls>>

\* The TR->EN switch.
ChatToggleAutoTranslate ==
    /\ chatOpen
    /\ autoTranslate' = ~autoTranslate
    /\ UNCHANGED <<listVars, chatMessage, inputQuery, chatLoading, translating, messages,
                   enhancementMode, enhancementQuery, sendCalls, nSendCalls>>

\* sendMessage, by Enter in the input field (enabled unless loading or no
\* database is selected) or by the Send button (disabled while loading or
\* translating, without text or without a database), and handleSendQuery up
\* to its first await.
ChatSendMessage ==
    /\ chatOpen
    /\ nSendCalls < MaxSendCalls
    /\ \E by \in {"Enter", "Send"} : by = "Send" => ~translating
    /\ ~chatLoading
    /\ Trim(inputQuery) # <<>>
    /\ selectedDatabaseId # NoDatabaseId
    /\ nSendCalls' = nSendCalls + 1
    /\ IF autoTranslate /\ isTurkishText(inputQuery)
       THEN /\ translating' = TRUE
            /\ sendCalls' = Append(sendCalls, Call(nSendCalls', "send", 0, inputQuery,
                                                   "translate", <<>>))
            /\ UNCHANGED <<messages, inputQuery, chatLoading>>
       ELSE LET c == Call(nSendCalls', "send", 0, inputQuery, "query", inputQuery)
            IN  /\ sendCalls' = Append(sendCalls, c)
                /\ ShowQuery(c, <<>>, FALSE)
    /\ UNCHANGED <<listVars, chatMessage, autoTranslate, enhancementMode, enhancementQuery>>

\* The Enhance button of a message that has an SQL query.
ChatOpenEnhancement ==
    /\ chatOpen
    /\ \E i \in DOMAIN messages :
        /\ messages[i].sqlQuery
        /\ enhancementMode # messages[i].call
        /\ enhancementMode' = messages[i].call
    /\ UNCHANGED <<listVars, chatMessage, inputQuery, chatLoading, translating, autoTranslate,
                   messages, enhancementQuery, sendCalls, nSendCalls>>

\* The enhancement field's onChange, with one of the Turkish texts; the
\* field is disabled while loading.
ChatEditEnhancement ==
    /\ chatOpen
    /\ enhancementMode # 0
    /\ ~chatLoading
    /\ \E text \in ChatTexts \ {enhancementQuery} :
        /\ isTurkishText(text)
        /\ enhancementQuery' = text
    /\ UNCHANGED <<listVars, chatMessage, inputQuery, chatLoading, translating, autoTranslate,
                   messages, enhancementMode, sendCalls, nSendCalls>>

\* Cancel of the enhancement panel.
ChatCancelEnhancement ==
    /\ chatOpen
    /\ enhancementMode # 0
    /\ enhancementMode' = 0
    /\ enhancementQuery' = <<>>
    /\ UNCHANGED <<listVars, chatMessage, inputQuery, chatLoading, translating, autoTranslate,
                   messages, sendCalls, nSendCalls>>

\* handleEnhanceSQL(enhancementMode.sql, enhancementQuery), by Enter in the
\* enhancement field or by the Enhance button (both disabled while loading),
\* up to its first await.
ChatEnhanceSQL ==
    /\ chatOpen
    /\ enhancementMode # 0
    /\ nSendCalls < MaxSendCalls
    /\ ~chatLoading
    /\ Trim(enhancementQuery) # <<>>
    /\ selectedDatabaseId # NoDatabaseId
    /\ nSendCalls' = nSendCalls + 1
    /\ chatLoading' = TRUE
    /\ sendCalls' = Append(sendCalls,
            IF autoTranslate /\ isTurkishText(enhancementQuery)
            THEN Call(nSendCalls', "enhance", enhancementMode, enhancementQuery,
                      "translate", <<>>)
            ELSE Call(nSendCalls', "enhance", enhancementMode, enhancementQuery, "query",
                      EnhancedQuery(enhancementMode, enhancementQuery)))
    /\ UNCHANGED <<listVars, chatMessage, inputQuery, translating, autoTranslate, messages,
                   enhancementMode, enhancementQuery>>

\* The translate-query request of a call is answered: the rest of
\* translateTurkishToEnglishWithLLM, then smartTranslateTurkishToEnglish up
\* to its next request or to its return, and then the caller up to its
\* fetch.  smartTranslateTurkishToEnglish never rejects, the callers' catch
\* blocks are not reached.  The server sends no confidence.
ChatTranslateAnswer ==
    \E i \in DOMAIN sendCalls, a \in {b \in TranslateAnswers : b.confidence = -1} :
        LET c == sendCalls[i]
            attempt == LLMResult(c.original, a)
            next == NextAttempt(c.original, c.attempt + 1, DefaultMaxRetries)
            result == IF Accepted(attempt) THEN attempt ELSE FinalFallback(c.original)
            via == IF /\ Accepted(attempt)
                      /\ a.kind = "body" /\ a.status = "success" /\ a.translated_text # <<>>
                   THEN "server" ELSE "dictionary"
            query == IF c.kind = "send" THEN result.translatedText
                     ELSE EnhancedQuery(c.sql, result.translatedText)
        IN  /\ c.phase = "translate"
            /\ IF ~Accepted(attempt) /\ LoopContinues(next, DefaultMaxRetries)
               THEN /\ sendCalls' = [sendCalls EXCEPT ![i].attempt = next]
                    /\ UNCHANGED <<messages, inputQuery, chatLoading, translating>>
               ELSE /\ sendCalls' = [sendCalls EXCEPT ![i].phase = "query",
                                                      ![i].natural_query = query,
                                                      ![i].via = via]
                    /\ IF c.kind = "send"
                       THEN ShowQuery(c, TranslationMessage(c, result), TRUE)
                       ELSE UNCHANGED <<messages, inputQuery, chatLoading, translating>>
            /\ UNCHANGED <<listVars, chatMessage, autoTranslate, enhancementMode,
                           enhancementQuery, nSendCalls>>

\* The enhanced-nlp-to-sql request of a call is answered with status
\* 'success', with another status, or not at all (fetch or response.json()
\* throws, or for handleSendQuery response.ok is false): the rest of the
\* handler.
ChatNlpAnswer ==
    \E i \in DOMAIN sendCalls, a \in {"success", "error", "reject"} :
        LET c == sendCalls[i]
            reply(content, sql) == [type |-> "assistant", content |-> content,
                                    call |-> c.call, sqlQuery |-> sql]
        IN  /\ c.phase = "query"
            /\ sendCalls' = RemoveAt(sendCalls, i)
            /\ IF ~c.mounted
               THEN UNCHANGED <<messages, chatLoading, chatMessage, enhancementMode,
                                enhancementQuery>>
               ELSE /\ chatLoading' = FALSE
                    /\ IF c.kind = "send"
                       THEN /\ messages' = Append(messages,
                                   CASE a = "success" ->
                                          reply(<<"SQL query generated successfully">>, TRUE)
                                     [] a = "error" ->
                                          reply(<<"Error: Failed to generate SQL query">>, FALSE)
                                     [] a = "reject" ->
                                          reply(<<"Error: Failed to connect to the server">>,
                                                FALSE))
                            /\ UNCHANGED <<chatMessage, enhancementMode, enhancementQuery>>
                       ELSE IF a = "success"
                       THEN /\ messages' = Append(messages,
                                   reply(<<"Enhanced SQL query based on: ">> \o c.original,
                                         TRUE))
                            /\ enhancementMode' = 0
                            /\ enhancementQuery' = <<>>
                            /\ chatMessage' = SuccessMessage("SQL query enhanced successfully!")
                       ELSE /\ chatMessage' = ErrorMessage("Failed to enhance SQL query")
                            /\ UNCHANGED <<messages, enhancementMode, enhancementQuery>>
            /\ UNCHANGED <<listVars, inputQuery, translating, autoTranslate, nSendCalls>>

\* The timeout that handleEnhanceSQL sets: setMessage(null).
ChatMessageTimeout ==
    /\ chatOpen
    /\ chatMessage # NoMessage
    /\ chatMessage' = NoMessage
    /\ UNCHANGED <<listVars, sendVars>>

(***************************************************************************)
(* NLPChat (src/src/components/NLPChat.tsx:348-407, 1423-1445): the import *)
(* dialog.  A call of handleConfirmImport is a record of importCalls from  *)
(* its first await to its end, with the sql and tableName of its closure:  *)
(* in phase "connection" its get-database-connection request is in flight, *)
(* in phase "load" its load-database-table request.                        *)
(***************************************************************************)
MaxImportCalls == 2

\* handleExecuteSQL, by the button of a message that has an SQL query; the
\* name is 'query_result_' + Date.now().
ChatExecuteSQL ==
    /\ chatOpen
    /\ ~importDialog.open
    /\ \E i \in DOMAIN messages :
        /\ messages[i].sqlQuery
        /\ importDialog' = [open |-> TRUE, sql |-> messages[i].call,
                            tableName |-> "query_result_t"]
    /\ UNCHANGED <<listVars, chatMessage, sendVars, importCalls, nImportCalls, loadTableLog,
                   importLog>>

\* The Table Name field's onChange: the name is emptied, or "sales" or
\* "stock" is typed.
ChatEditTableName ==
    /\ importDialog.open
    /\ \E name \in {"", "sales", "stock"} \ {importDialog.tableName} :
        importDialog' = [importDialog EXCEPT !.tableName = name]
    /\ UNCHANGED <<listVars, chatMessage, sendVars, importCalls, nImportCalls, loadTableLog,
                   importLog>>

\* Cancel, which only closes the dialog, or the dialog's onClose, which also
\* empties it.
ChatCancelImport ==
    /\ importDialog.open
    /\ \E by \in {"Cancel", "onClose"} :
        importDialog' = IF by = "Cancel" THEN [importDialog EXCEPT !.open = FALSE]
                        ELSE ClosedImportDialog
    /\ UNCHANGED <<listVars, chatMessage, sendVars, importCalls, nImportCalls, loadTableLog,
                   importLog>>

\* Confirm, disabled without a table name, and handleConfirmImport up to its
\* first await; without a selected database it returns at once.
ChatConfirmImport ==
    /\ importDialog.open
    /\ importDialog.tableName # ""
    /\ nImportCalls < MaxImportCalls
    /\ IF selectedDatabaseId = NoDatabaseId
       THEN UNCHANGED <<importCalls, nImportCalls>>
       ELSE /\ nImportCalls' = nImportCalls + 1
            /\ importCalls' = Append(importCalls,
                   [call |-> nImportCalls', sql |-> importDialog.sql,
                    tableName |-> importDialog.tableName, database_id |-> selectedDatabaseId,
                    phase |-> "connection", mounted |-> TRUE])
    /\ UNCHANGED <<listVars, chatMessage, sendVars, importDialog, loadTableLog, importLog>>

\* The get-database-connection request of a call is answered with status
\* 'success' and the call sends its load-database-table request, or with
\* another status or not at all (the fetch or response.json() throws) and
\* the call ends in its catch.
ChatImportConnection ==
    \E i \in DOMAIN importCalls, a \in {"success", "error", "reject"} :
        LET c == importCalls[i]
        IN  /\ c.phase = "connection"
            /\ IF a = "success"
               THEN /\ importCalls' = [importCalls EXCEPT ![i].phase = "load"]
                    /\ UNCHANGED <<chatMessage, importLog>>
               ELSE /\ importCalls' = RemoveAt(importCalls, i)
                    /\ importLog' = [call |-> c.call, tableName |-> c.tableName,
                                     mounted |-> c.mounted, connection |-> a, load |-> "none"]
                    /\ chatMessage' =
                           IF c.mounted
                           THEN ErrorMessage("Failed to execute SQL and import table")
                           ELSE chatMessage
            /\ UNCHANGED <<listVars, sendVars, importDialog, nImportCalls, loadTableLog>>

\* The variant that closes the dialog whatever the answer is.
ChatImportLoadAlwaysCloses ==
    \E i \in DOMAIN importCalls, a \in {"success", "error", "reject"} :
        LET c == importCalls[i]
        IN  /\ c.phase = "load"
            /\ importCalls' = RemoveAt(importCalls, i)
            /\ importLog' = [call |-> c.call, tableName |-> c.tableName,
                             mounted |-> c.mounted, connection |-> "success", load |-> a]
            /\ loadTableLog' =
                   IF a = "success"
                   THEN Append(loadTableLog, [id |-> c.tableName, displayId |-> c.tableName,
                                              anchored |-> TRUE, custom_sql |-> c.sql])
                   ELSE loadTableLog
            /\ chatMessage' =
                   CASE ~c.mounted -> chatMessage
                     [] a = "success" -> SuccessMessage("SQL executed and imported")
                     [] a = "error" -> ErrorMessage("SQL execution failed: ")
                     [] a = "reject" -> ErrorMessage("Failed to execute SQL and import table")
            /\ importDialog' = IF c.mounted THEN ClosedImportDialog ELSE importDialog
            /\ UNCHANGED <<listVars, sendVars, nImportCalls>>

\* The load-database-table request of a call is answered with status
\* 'success', with another status, or not at all: the rest of the handler.
\* dispatch reaches the store whether or not the instance is still mounted;
\* a state update of an unmounted instance does nothing.
ChatImportLoad ==
    \E i \in DOMAIN importCalls, a \in {"success", "error", "reject"} :
        LET c == importCalls[i]
        IN  /\ c.phase = "load"
            /\ importCalls' = RemoveAt(importCalls, i)
            /\ importLog' = [call |-> c.call, tableName |-> c.tableName,
                             mounted |-> c.mounted, connection |-> "success", load |-> a]
            /\ loadTableLog' =
                   IF a = "success"
                   THEN Append(loadTableLog, [id |-> c.tableName, displayId |-> c.tableName,
                                              anchored |-> TRUE, custom_sql |-> c.sql])
                   ELSE loadTableLog
            /\ chatMessage' =
                   CASE ~c.mounted -> chatMessage
                     [] a = "success" -> SuccessMessage("SQL executed and imported")
                     [] a = "error" -> ErrorMessage("SQL execution failed: ")
                     [] a = "reject" -> ErrorMessage("Failed to execute SQL and import table")
            /\ importDialog' = IF c.mounted /\ a = "success" THEN ClosedImportDialog
                               ELSE importDialog
            /\ UNCHANGED <<listVars, sendVars, nImportCalls>>

(***************************************************************************)
(* TableUploadDialog (src/src/views/TableSelectionView.tsx:267-585).  A    *)
(* call of handleFileUploadWithProgress that is waiting, for file.text()   *)
(* or for its FileReader, is a record of uploads; a call for a file of an  *)
(* unsupported type ends before handleFileUpload returns.                  *)
(***************************************************************************)
MaxUploads == 3

\* The files that are chosen: a text file, a large Excel file and a file
\* that is neither by its type nor by its name.
Files ==
    {[name |-> "a.csv", kind |-> "text", large |-> FALSE],
     [name |-> "b.xlsx", kind |-> "excel", large |-> TRUE],
     [name |-> "c.txt", kind |-> "unsupported", large |-> FALSE]}

\* The store and the views before anything is uploaded.
ViewInit ==
    /\ fileUploading = <<>>
    /\ uploads = <<>>
    /\ uploadTimers = {}
    /\ nUploads = 0
    /\ uploadLog = <<>>
    /\ uploadMessages = <<>>
    /\ tablesLoaded = <<>>
    /\ tableContent = ""
    /\ cleaningInProgress = FALSE
    /\ cleanTableContent = [token |-> 0, content |-> ""]
    /\ cleanReqs = <<>>
    /\ nClean = 0
    /\ cleanMessages = 0
    /\ tables = <<>>
    /\ leafTables = <<>>
    /\ threads = <<>>

\* dfActions.setFileUploadProgress, as the overlay uses the records: one
\* record for a file name, replaced by the next one for that name.
setFileUploadProgress(store, fileName, percent, status) ==
    LET record == [fileName |-> fileName, progress |-> percent, status |-> status]
    IN  IF \E i \in DOMAIN store : store[i].fileName = fileName
        THEN [i \in DOMAIN store |-> IF store[i].fileName = fileName THEN record
                                     ELSE store[i]]
        ELSE Append(store, record)

\* getUniqueTableName: baseName, or `${baseName}_${counter}` with the first
\* counter from 1 that gives a new name; counter 0 stands for baseName.
getUniqueTableName(baseName, existingNames) ==
    LET name(n) == [base |-> baseName, counter |-> n]
    IN  name(CHOOSE n \in 0..Cardinality(existingNames) :
                 /\ name(n) \notin existingNames
                 /\ \A m \in 0..(n - 1) : name(m) \in existingNames)

\* handleFileUploadWithProgress(file, uniqueName), as call k, up to its first
\* await or to its return: the progress it leaves is 25% for a file it
\* reads and the error for a file of unsupported type.
StartUpload(st, file, uniqueName, k) ==
    LET msgs == IF file.large THEN Append(st.msgs, [type |-> "info", call |-> k])
                ELSE st.msgs
    IN  IF file.kind = "unsupported"
        THEN [store |-> setFileUploadProgress(st.store, file.name, 100, "error"),
              calls |-> st.calls,
              timers |-> st.timers \cup {[fileName |-> file.name, delay |-> 5000, call |-> k]},
              log |-> Append(st.log, [call |-> k, fileName |-> file.name,
                                      kind |-> file.kind, status |-> "error"]),
              msgs |-> Append(msgs, [type |-> "error", call |-> k])]
        ELSE [store |-> setFileUploadProgress(st.store, file.name, 25, "parsing"),
              calls |-> Append(st.calls, [call |-> k, fileName |-> file.name,
                                          kind |-> file.kind, uniqueName |-> uniqueName,
                                          read |-> 25]),
              timers |-> st.timers, log |-> st.log, msgs |-> msgs]

\* handleFileUpload: the upload button is enabled while fileUploading is
\* empty, and one or two files are chosen.  The names are made unique
\* against the tables of the render, here the text tables loaded so far.
UploadFiles ==
    /\ fileUploading = <<>>
    /\ \E files \in {<<f>> : f \in Files} \cup {<<f, g>> : f, g \in Files} :
        /\ Len(files) = 2 => files[1] # files[2]
        /\ nUploads + Len(files) <= MaxUploads
        /\ LET existingNames == {t.name : t \in {u \in Range(tablesLoaded) : u.sheet = 0}}
               unique(i) == getUniqueTableName(files[i].name, existingNames)
               st0 == [store |-> fileUploading, calls |-> uploads, timers |-> uploadTimers,
                       log |-> uploadLog, msgs |-> uploadMessages]
               st1 == StartUpload(st0, files[1], unique(1), nUploads + 1)
               st == IF Len(files) = 1 THEN st1
                     ELSE StartUpload(st1, files[2], unique(2), nUploads + 2)
           IN  /\ fileUploading' = st.store
               /\ uploads' = st.calls
               /\ uploadTimers' = st.timers
               /\ uploadLog' = st.log
               /\ uploadMessages' = st.msgs
               /\ nUploads' = nUploads + Len(files)
    /\ UNCHANGED tablesLoaded

\* The rest of a call for a text file: file.text() has given the text and
\* loadTextDataWrapper a table, or no table (or it throws), or file.text()
\* is rejected.
UploadTextRead ==
    \E i \in DOMAIN uploads, a \in {"table", "no table", "reject"} :
        LET c == uploads[i]
            status == IF a = "table" THEN "complete" ELSE "error"
        IN  /\ c.kind = "text"
            /\ uploads' = RemoveAt(uploads, i)
            /\ fileUploading' = setFileUploadProgress(fileUploading, c.fileName, 100, status)
            /\ tablesLoaded' = IF a = "table"
                               THEN Append(tablesLoaded, [call |-> c.call,
                                                          name |-> c.uniqueName, sheet |-> 0])
                               ELSE tablesLoaded
            /\ uploadMessages' = Append(uploadMessages,
                                        [type |-> IF a = "table" THEN "success" ELSE "error",
                                         call |-> c.call])
            /\ uploadTimers' = uploadTimers \cup
                                   {[fileName |-> c.fileName, call |-> c.call,
                                     delay |-> IF a = "table" THEN 3000 ELSE 5000]}
            /\ uploadLog' = Append(uploadLog, [call |-> c.call, fileName |-> c.fileName,
                                               kind |-> c.kind, status |-> status])
            /\ UNCHANGED nUploads

\* reader.onprogress of a call for an Excel file: 25% to 75%, growing.
UploadExcelProgress ==
    \E i \in DOMAIN uploads, percent \in {50, 75} :
        /\ uploads[i].kind = "excel"
        /\ uploads[i].read < percent
        /\ uploads' = [uploads EXCEPT ![i].read = percent]
        /\ fileUploading' = setFileUploadProgress(fileUploading, uploads[i].fileName,
                                                  percent, "parsing")
        /\ UNCHANGED <<uploadTimers, nUploads, uploadLog, uploadMessages, tablesLoaded>>

\* The variant whose timeout after an error is never set.
UploadExcelLoadNoErrorTimeout ==
    \E i \in DOMAIN uploads, event \in {"load", "error"}, sheets \in -1..2 :
        LET c == uploads[i]
            loaded == event = "load" /\ sheets > 0
            status == IF loaded THEN "complete" ELSE "error"
        IN  /\ c.kind = "excel"
            /\ event = "error" => sheets = 0
            /\ uploads' = RemoveAt(uploads, i)
            /\ fileUploading' = setFileUploadProgress(fileUploading, c.fileName, 100, status)
            /\ tablesLoaded' = IF loaded
                               THEN tablesLoaded \o [j \in 1..sheets |->
                                        [call |-> c.call, name |-> c.uniqueName, sheet |-> j]]
                               ELSE tablesLoaded
            /\ uploadMessages' = Append(uploadMessages,
                                        [type |-> IF loaded THEN "success" ELSE "error",
                                         call |-> c.call])
            /\ uploadTimers' = IF loaded
                               THEN uploadTimers \cup {[fileName |-> c.fileName,
                                                        call |-> c.call, delay |-> 3000]}
                               ELSE uploadTimers
            /\ uploadLog' = Append(uploadLog, [call |-> c.call, fileName |-> c.fileName,
                                               kind |-> c.kind, status |-> status])
            /\ UNCHANGED nUploads

\* The end of a call for an Excel file: reader.onerror, or reader.onload
\* with the file's ArrayBuffer, where loadBinaryDataWrapper throws (-1) or
\* gives the tables of 0, 1 or 2 sheets; no table is an error too.
UploadExcelLoad ==
    \E i \in DOMAIN uploads, event \in {"load", "error"}, sheets \in -1..2 :
        LET c == uploads[i]
            loaded == event = "load" /\ sheets > 0
            status == IF loaded THEN "complete" ELSE "error"
        IN  /\ c.kind = "excel"
            /\ event = "error" => sheets = 0
            /\ uploads' = RemoveAt(uploads, i)
            /\ fileUploading' = setFileUploadProgress(fileUploading, c.fileName, 100, status)
            /\ tablesLoaded' = IF loaded
                               THEN tablesLoaded \o [j \in 1..sheets |->
                                        [call |-> c.call, name |-> c.uniqueName, sheet |-> j]]
                               ELSE tablesLoaded
            /\ uploadMessages' = Append(uploadMessages,
                                        [type |-> IF loaded THEN "success" ELSE "error",
                                         call |-> c.call])
            /\ uploadTimers' = uploadTimers \cup
                                   {[fileName |-> c.fileName, call |-> c.call,
                                     delay |-> IF loaded THEN 3000 ELSE 5000]}
            /\ uploadLog' = Append(uploadLog, [call |-> c.call, fileName |-> c.fileName,
                                               kind |-> c.kind, status |-> status])
            /\ UNCHANGED nUploads

\* A timeout runs: dfActions.removeFileUploadProgress(fileName) removes the
\* record of that name, whichever call has written it.
UploadTimeout ==
    \E t \in uploadTimers :
        /\ uploadTimers' = uploadTimers \ {t}
        /\ fileUploading' = SelectSeq(fileUploading, LAMBDA r : r.fileName # t.fileName)
        /\ UNCHANGED <<uploads, nUploads, uploadLog, uploadMessages, tablesLoaded>>

\* Close of the overlay, shown once every record is complete or an error:
\* dfActions.clearAllFileUploadProgress(); the timeouts stay set.
UploadClose ==
    /\ fileUploading # <<>>
    /\ \A r \in Range(fileUploading) : r.status \in {"complete", "error"}
    /\ fileUploading' = <<>>
    /\ UNCHANGED <<uploads, uploadTimers, nUploads, uploadLog, uploadMessages, tablesLoaded>>

(***************************************************************************)
(* TableCopyDialogV2 (src/src/views/TableSelectionView.tsx:672-800,        *)
(* 957-974): the pasted content and its cleaning.  The model names the     *)
(* token of a request, String(Date.now()), by the number of the call, and  *)
(* a cleaned content by the token of the request that it answers.          *)
(***************************************************************************)
MaxClean == 3

\* cleanTableContent == undefined
undefined == [token |-> 0, content |-> ""]

\* The content field's onChange, shown while there is no cleaned table and
\* disabled while cleaning is in progress.
CopyEditContent ==
    /\ cleanTableContent = undefined
    /\ ~cleaningInProgress
    /\ \E text \in {"", "a,b"} \ {tableContent} : tableContent' = text
    /\ UNCHANGED <<cleaningInProgress, cleanTableContent, cleanReqs, nClean, cleanMessages>>

\* handleCleanData up to its fetch, by the Clean / Generate Data button,
\* which is shown while there is no cleaned table and disabled without
\* content.
CopyCleanData ==
    /\ cleanTableContent = undefined
    /\ tableContent # ""
    /\ nClean < MaxClean
    /\ nClean' = nClean + 1
    /\ cleaningInProgress' = TRUE
    /\ cleanTableContent' = undefined
    /\ cleanReqs' = Append(cleanReqs, [token |-> nClean', raw_data |-> tableContent])
    /\ UNCHANGED <<tableContent, cleanMessages>>

\* The clean-data request of a call is answered: with status 'ok' and the
\* call's token (echo) or another token, with another status, or not at all
\* (fetch or response.json() rejects, or the result has no candidate).  The
\* token that data["token"] is compared with is the one of the call's own
\* closure.
CopyCleanAnswer ==
    \E i \in DOMAIN cleanReqs, status \in {"ok", "error", "reject"}, echo \in BOOLEAN :
        LET token == cleanReqs[i].token
        IN  /\ ~echo => status = "ok"
            /\ cleanReqs' = RemoveAt(cleanReqs, i)
            /\ cleaningInProgress' = FALSE
            /\ cleanTableContent' =
                   CASE status = "ok" /\ echo -> [token |-> token, content |-> "clean"]
                     [] status = "ok" -> cleanTableContent
                     [] OTHER -> undefined
            /\ cleanMessages' = IF status = "ok" THEN cleanMessages ELSE cleanMessages + 1
            /\ UNCHANGED <<tableContent, nClean>>

\* Revert, shown while there is a cleaned table.
CopyRevert ==
    /\ cleanTableContent # undefined
    /\ cleanTableContent' = undefined
    /\ UNCHANGED <<tableContent, cleaningInProgress, cleanReqs, nClean, cleanMessages>>

\* Edit Data, shown while there is a cleaned table: the cleaned content
\* becomes the content.
CopyEditData ==
    /\ cleanTableContent # undefined
    /\ tableContent' = cleanTableContent.content
    /\ cleanTableContent' = undefined
    /\ UNCHANGED <<cleaningInProgress, cleanReqs, nClean, cleanMessages>>

(***************************************************************************)
(* DataThread (src/unnamed/part_000:749-808): the leaf tables, their       *)
(* order and the threads.  A table is its id, the id of the table its      *)
(* derive.trigger names (0 for a table that is not derived) and anchored;  *)
(* positions in tables count from 1.                                       *)
(***************************************************************************)
MaxTables == 4

\* The tables the store can hold: a derived table is created from a table
\* that exists, and comes after it.
TableLists ==
    UNION {{[i \in 1..n |-> [id |-> i, derive |-> f[i].derive, anchored |-> f[i].anchored]] :
               f \in {g \in [1..n -> [derive : 0..(n - 1), anchored : BOOLEAN]] :
                         \A i \in 1..n : g[i].derive < i}} :
           n \in 1..MaxTables}

\* tableOrder[id]: Object.fromEntries keeps the last position of an id.
tableOrder(ts, id) ==
    LET at == {i \in DOMAIN ts : ts[i].id = id}
    IN  CHOOSE i \in at : \A j \in at : j <= i

\* getTriggers(leafTable, tables): the triggers on the way to the leaf,
\* from root to leaf.
RECURSIVE getTriggers(_, _)
getTriggers(t, ts) ==
    IF t.derive = 0 THEN <<>>
    ELSE LET at == {i \in DOMAIN ts : ts[i].id = t.derive}
         IN  (IF at = {} THEN <<>> ELSE getTriggers(ts[CHOOSE i \in at : TRUE], ts))
             \o <<[tableId |-> t.derive]>>

getAncestorOrders(leafTable, ts) ==
    LET triggers == getTriggers(leafTable, ts)
    IN  [i \in DOMAIN triggers |-> tableOrder(ts, triggers[i].tableId)]
        \o <<tableOrder(ts, leafTable.id)>>

\* The variant that compares the lengths first.
compareLengthsFirst(aAncestors, bAncestors) ==
    LET differ == {i \in DOMAIN aAncestors \cap DOMAIN bAncestors :
                      aAncestors[i] # bAncestors[i]}
    IN  IF Len(aAncestors) # Len(bAncestors) THEN Len(aAncestors) - Len(bAncestors)
        ELSE IF differ # {}
        THEN LET i == CHOOSE i \in differ : \A j \in differ : i <= j
             IN  aAncestors[i] - bAncestors[i]
        ELSE 0

\* The comparator of leafTables.sort, on the two lists of ancestor orders:
\* the difference at the first index where they differ, or else the
\* difference of the lengths.
compare(aAncestors, bAncestors) ==
    LET differ == {i \in DOMAIN aAncestors \cap DOMAIN bAncestors :
                      aAncestors[i] # bAncestors[i]}
    IN  IF differ # {}
        THEN LET i == CHOOSE i \in differ : \A j \in differ : i <= j
             IN  aAncestors[i] - bAncestors[i]
        ELSE Len(aAncestors) - Len(bAncestors)

\* Array.prototype.sort with that comparator: a stable sort, here by
\* insertion, which puts an element behind those that do not compare
\* greater.
RECURSIVE sort(_, _)
sort(list, ts) ==
    IF Len(list) = 0 THEN <<>>
    ELSE LET sorted == sort(SubSeq(list, 1, Len(list) - 1), ts)
             x == list[Len(list)]
             behind == {i \in DOMAIN sorted :
                           compare(getAncestorOrders(sorted[i], ts),
                                   getAncestorOrders(x, ts)) > 0}
             k == IF behind = {} THEN Len(sorted) + 1
                  ELSE CHOOSE i \in behind : \A j \in behind : i <= j
         IN  SubSeq(sorted, 1, k - 1) \o <<x>> \o SubSeq(sorted, k, Len(sorted))

\* leafTables before it is sorted: the anchored derived tables, then the
\* tables that no table is derived from.
LeafTables(ts) ==
    SelectSeq(ts, LAMBDA t : t.anchored /\ t.derive # 0)
    \o SelectSeq(ts, LAMBDA t : \A i \in DOMAIN ts : ts[i].derive # t.id)

\* A render of DataThread with the tables ts: leafTables, sorted, and one
\* SingleThreadView for each.
ThreadRender(ts) ==
    /\ leafTables' = sort(LeafTables(ts), ts)
    /\ threads' = [i \in DOMAIN leafTables' |->
                     [threadIdx |-> i, leafTable |-> leafTables'[i],
                      usedIntermediateTableIds |->
                          UNION {{tg.tableId : tg \in Range(getTriggers(leafTables'[j], ts))} :
                                 j \in 1..(i - 1)}]]

\* The first render.
ThreadMount ==
    /\ threads = <<>>
    /\ ThreadRender(tables)
    /\ UNCHANGED tables

\* The anchor button of a table card: updateTableAnchored, and the render
\* that follows.
ThreadToggleAnchored ==
    /\ threads # <<>>
    /\ \E i \in DOMAIN tables :
        /\ tables' = [tables EXCEPT ![i].anchored = ~tables[i].anchored]
        /\ ThreadRender(tables')

\* The delete button of a table card, shown for a table that no table is
\* derived from: deleteTable, and the render that follows.
ThreadDeleteTable ==
    /\ threads # <<>>
    /\ \E i \in DOMAIN tables :
        /\ \A j \in DOMAIN tables : tables[j].derive # tables[i].id
        /\ tables' = RemoveAt(tables, i)
        /\ ThreadRender(tables')

(***************************************************************************)
(* Specifications: one per component, the others at rest.                  *)
(***************************************************************************)

\* The state before anything is clicked, with one verify request in flight.
InitOneVerify == ConfigInit /\ AuthStart(1) /\ IndexerInit /\ ChatInit /\ TranslateInit /\ ViewInit

ConfigNext ==
    \/ ConfigOpenDialog /\ UNCHANGED <<authVars, loginVars, componentVars>>
    \/ ConfigCancel /\ UNCHANGED <<authVars, loginVars, componentVars>>
    \/ ConfigEditTimeout /\ UNCHANGED <<authVars, loginVars, componentVars>>
    \/ ConfigEditRepair /\ UNCHANGED <<authVars, loginVars, componentVars>>
    \/ ConfigEditWidth /\ UNCHANGED <<authVars, loginVars, componentVars>>
    \/ ConfigEditHeight /\ UNCHANGED <<authVars, loginVars, componentVars>>
    \/ ConfigReset /\ UNCHANGED <<authVars, loginVars, componentVars>>
    \/ ConfigApply /\ UNCHANGED <<authVars, loginVars, componentVars>>

SpecConfig == InitOneVerify /\ [][ConfigNext]_vars

InitAuth == ConfigInit /\ AuthInit /\ IndexerInit /\ ChatInit /\ TranslateInit /\ ViewInit

AuthNext ==
    \/ CheckAuthResponse /\ UNCHANGED <<configVars, componentVars>>
    \/ LogoutStart /\ UNCHANGED <<configVars, componentVars>>
    \/ LogoutResponse /\ UNCHANGED <<configVars, componentVars>>
    \/ LoginSubmit /\ UNCHANGED <<configVars, componentVars>>
    \/ LoginResponse /\ UNCHANGED <<configVars, componentVars>>

SpecAuth == InitAuth /\ [][AuthNext]_vars

\* The lists of indexed databases, in DatabaseIndexer and in NLPChat, with
\* the schema dialog and its search.

IndexerNext ==
    \/ IxOpen /\ UNCHANGED <<shellVars, chatVars, translateVars, viewVars>>
    \/ IxClose /\ UNCHANGED <<shellVars, chatVars, translateVars, viewVars>>
    \/ IxLoadStart /\ UNCHANGED <<shellVars, chatVars, translateVars, viewVars>>
    \/ IxLoadResponse /\ UNCHANGED <<shellVars, chatVars, translateVars, viewVars>>
    \/ IxViewSchemaStart /\ UNCHANGED <<shellVars, chatVars, translateVars, viewVars>>
    \/ IxViewSchemaResponse /\ UNCHANGED <<shellVars, chatVars, translateVars, viewVars>>
    \/ IxCloseSchemaDialog /\ UNCHANGED <<shellVars, chatVars, translateVars, viewVars>>
    \/ IxCloseMessage /\ UNCHANGED <<shellVars, chatVars, translateVars, viewVars>>
    \/ IxDeleteStart /\ UNCHANGED <<shellVars, chatVars, translateVars, viewVars>>
    \/ IxDeleteResponse /\ UNCHANGED <<shellVars, chatVars, translateVars, viewVars>>
    \/ IxEditSearchQuery /\ UNCHANGED <<shellVars, chatVars, translateVars, viewVars>>
    \/ IxSearchStart /\ UNCHANGED <<shellVars, chatVars, translateVars, viewVars>>
    \/ IxSearchResponse /\ UNCHANGED <<shellVars, chatVars, translateVars, viewVars>>
    \/ ChatOpen /\ UNCHANGED <<shellVars, indexerVars, searchVars, indexingVars, translateVars, sendVars, importVars, viewVars>>
    \/ ChatClose /\ UNCHANGED <<shellVars, indexerVars, searchVars, indexingVars, translateVars, viewVars>>
    \/ ChatSelectDatabase /\ UNCHANGED <<shellVars, indexerVars, searchVars, indexingVars, translateVars, sendVars, importVars, viewVars>>
    \/ ChatLoadResponse /\ UNCHANGED <<shellVars, indexerVars, searchVars, indexingVars, translateVars, sendVars, importVars, viewVars>>

SpecIndexer == InitOneVerify /\ [][IndexerNext]_vars

\* DatabaseIndexer's list with the operations that reload it: refresh,
\* delete and index, with the progress polling.

IndexingNext ==
    \/ IxOpen /\ UNCHANGED <<shellVars, chatVars, translateVars, viewVars>>
    \/ IxClose /\ UNCHANGED <<shellVars, chatVars, translateVars, viewVars>>
    \/ IxLoadStart /\ UNCHANGED <<shellVars, chatVars, translateVars, viewVars>>
    \/ IxLoadResponse /\ UNCHANGED <<shellVars, chatVars, translateVars, viewVars>>
    \/ IxCloseMessage /\ UNCHANGED <<shellVars, chatVars, translateVars, viewVars>>
    \/ IxDeleteStart /\ UNCHANGED <<shellVars, chatVars, translateVars, viewVars>>
    \/ IxDeleteResponse /\ UNCHANGED <<shellVars, chatVars, translateVars, viewVars>>
    \/ IxOpenIndexDialog /\ UNCHANGED <<shellVars, chatVars, translateVars, viewVars>>
    \/ IxCancelIndexDialog /\ UNCHANGED <<shellVars, chatVars, translateVars, viewVars>>
    \/ IxEditConnectionName /\ UNCHANGED <<shellVars, chatVars, translateVars, viewVars>>
    \/ IxEditServer /\ UNCHANGED <<shellVars, chatVars, translateVars, viewVars>>
    \/ IxIndexStart /\ UNCHANGED <<shellVars, chatVars, translateVars, viewVars>>
    \/ IxIndexResponse /\ UNCHANGED <<shellVars, chatVars, translateVars, viewVars>>
    \/ IxPollTick /\ UNCHANGED <<shellVars, chatVars, translateVars, viewVars>>
    \/ IxPollResponse /\ UNCHANGED <<shellVars, chatVars, translateVars, viewVars>>

SpecIndexing == InitOneVerify /\ [][IndexingNext]_vars

\* The translation helpers, called with one text after another.

TranslateNext ==
    \/ TrIsTurkishText /\ UNCHANGED <<shellVars, indexerVars, searchVars, indexingVars, chatVars, failureLog, viewVars>>
    \/ TrSmartStart /\ UNCHANGED <<shellVars, indexerVars, searchVars, indexingVars, chatVars, failureLog, viewVars>>
    \/ TrAnswer /\ UNCHANGED <<shellVars, indexerVars, searchVars, indexingVars, chatVars, failureLog, viewVars>>
    \/ TrLLMStart /\ UNCHANGED <<shellVars, indexerVars, searchVars, indexingVars, chatVars, failureLog, viewVars>>
    \/ TrLLMAnswer /\ UNCHANGED <<shellVars, indexerVars, searchVars, indexingVars, chatVars, failureLog, viewVars>>
    \/ TrSuggest /\ UNCHANGED <<shellVars, indexerVars, searchVars, indexingVars, chatVars, failureLog, viewVars>>
    \/ TrNext /\ UNCHANGED <<shellVars, indexerVars, searchVars, indexingVars, chatVars, failureLog, viewVars>>

SpecTranslate == InitOneVerify /\ [][TranslateNext]_vars

\* NLPChat's chat with its queries and enhancements, from the state in which
\* the dialog is open and the list has been loaded: loadIndexedDatabases has
\* selected the first database.

InitChat ==
    /\ ConfigInit /\ AuthStart(1) /\ IndexerInit /\ TranslateInit /\ ViewInit
    /\ chatOpen = TRUE
    /\ chatReqs = <<>>
    /\ chatIndexedDatabases = <<1>>
    /\ selectedDatabaseId = 1
    /\ chatMessage = NoMessage
    /\ chatLastList = [databases |-> <<1>>, stale |-> FALSE, any |-> TRUE]
    /\ inputQuery = <<>>
    /\ chatLoading = FALSE
    /\ translating = FALSE
    /\ autoTranslate = TRUE
    /\ messages = <<>>
    /\ enhancementMode = 0
    /\ enhancementQuery = <<>>
    /\ sendCalls = <<>>
    /\ nSendCalls = 0
    /\ importDialog = ClosedImportDialog
    /\ importCalls = <<>>
    /\ nImportCalls = 0
    /\ loadTableLog = <<>>
    /\ importLog = [call |-> 0]

ChatNext ==
    \/ ChatClose /\ UNCHANGED <<shellVars, indexerVars, searchVars, indexingVars, translateVars, viewVars>>
    \/ ChatEditInput /\ UNCHANGED <<shellVars, indexerVars, searchVars, indexingVars, translateVars, importVars, viewVars>>
    \/ ChatToggleAutoTranslate /\ UNCHANGED <<shellVars, indexerVars, searchVars, indexingVars, translateVars, importVars, viewVars>>
    \/ ChatSendMessage /\ UNCHANGED <<shellVars, indexerVars, searchVars, indexingVars, translateVars, importVars, viewVars>>
    \/ ChatOpenEnhancement /\ UNCHANGED <<shellVars, indexerVars, searchVars, indexingVars, translateVars, importVars, viewVars>>
    \/ ChatEditEnhancement /\ UNCHANGED <<shellVars, indexerVars, searchVars, indexingVars, translateVars, importVars, viewVars>>
    \/ ChatCancelEnhancement /\ UNCHANGED <<shellVars, indexerVars, searchVars, indexingVars, translateVars, importVars, viewVars>>
    \/ ChatEnhanceSQL /\ UNCHANGED <<shellVars, indexerVars, searchVars, indexingVars, translateVars, importVars, viewVars>>
    \/ ChatTranslateAnswer /\ UNCHANGED <<shellVars, indexerVars, searchVars, indexingVars, translateVars, importVars, viewVars>>
    \/ ChatNlpAnswer /\ UNCHANGED <<shellVars, indexerVars, searchVars, indexingVars, translateVars, importVars, viewVars>>
    \/ ChatMessageTimeout /\ UNCHANGED <<shellVars, indexerVars, searchVars, indexingVars, translateVars, importVars, viewVars>>

SpecChat == InitChat /\ [][ChatNext]_vars

\* NLPChat's import dialog, from the state in which two queries have been
\* answered with an SQL query each.

InitImport ==
    /\ ConfigInit /\ AuthStart(1) /\ IndexerInit /\ TranslateInit /\ ViewInit
    /\ chatOpen = TRUE
    /\ chatReqs = <<>>
    /\ chatIndexedDatabases = <<1>>
    /\ selectedDatabaseId = 1
    /\ chatMessage = NoMessage
    /\ chatLastList = [databases |-> <<1>>, stale |-> FALSE, any |-> TRUE]
    /\ inputQuery = <<>>
    /\ chatLoading = FALSE
    /\ translating = FALSE
    /\ autoTranslate = TRUE
    /\ messages = [i \in 1..4 |->
                     IF i % 2 = 1
                     THEN [type |-> "user", content |-> <<"S", "U", "M">>,
                           call |-> (i + 1) \div 2, sqlQuery |-> FALSE]
                     ELSE [type |-> "assistant",
                           content |-> <<"SQL query generated successfully">>,
                           call |-> i \div 2, sqlQuery |-> TRUE]]
    /\ enhancementMode = 0
    /\ enhancementQuery = <<>>
    /\ sendCalls = <<>>
    /\ nSendCalls = 2
    /\ importDialog = ClosedImportDialog
    /\ importCalls = <<>>
    /\ nImportCalls = 0
    /\ loadTableLog = <<>>
    /\ importLog = [call |-> 0]

ImportNext ==
    \/ ChatClose /\ UNCHANGED <<shellVars, indexerVars, searchVars, indexingVars, translateVars, viewVars>>
    \/ ChatExecuteSQL /\ UNCHANGED <<shellVars, indexerVars, searchVars, indexingVars, translateVars, viewVars>>
    \/ ChatEditTableName /\ UNCHANGED <<shellVars, indexerVars, searchVars, indexingVars, translateVars, viewVars>>
    \/ ChatCancelImport /\ UNCHANGED <<shellVars, indexerVars, searchVars, indexingVars, translateVars, viewVars>>
    \/ ChatConfirmImport /\ UNCHANGED <<shellVars, indexerVars, searchVars, indexingVars, translateVars, viewVars>>
    \/ ChatImportConnection /\ UNCHANGED <<shellVars, indexerVars, searchVars, indexingVars, translateVars, viewVars>>
    \/ ChatImportLoad /\ UNCHANGED <<shellVars, indexerVars, searchVars, indexingVars, translateVars, viewVars>>

SpecImport == InitImport /\ [][ImportNext]_vars

\* TableUploadDialog.  file.text() settles, a FileReader ends with load or
\* error, and a timeout that is set runs: these steps are taken whenever
\* they stay possible.

UploadNext ==
    \/ UploadFiles /\ UNCHANGED <<shellVars, indexerVars, searchVars, indexingVars, chatVars, failureLog, translateVars, cleanVars, threadVars>>
    \/ UploadTextRead /\ UNCHANGED <<shellVars, indexerVars, searchVars, indexingVars, chatVars, failureLog, translateVars, cleanVars, threadVars>>
    \/ UploadExcelProgress /\ UNCHANGED <<shellVars, indexerVars, searchVars, indexingVars, chatVars, failureLog, translateVars, cleanVars, threadVars>>
    \/ UploadExcelLoad /\ UNCHANGED <<shellVars, indexerVars, searchVars, indexingVars, chatVars, failureLog, translateVars, cleanVars, threadVars>>
    \/ UploadTimeout /\ UNCHANGED <<shellVars, indexerVars, searchVars, indexingVars, chatVars, failureLog, translateVars, cleanVars, threadVars>>
    \/ UploadClose /\ UNCHANGED <<shellVars, indexerVars, searchVars, indexingVars, chatVars, failureLog, translateVars, cleanVars, threadVars>>

SpecUpload ==
    /\ InitOneVerify
    /\ [][UploadNext]_vars
    /\ WF_uploadVars(UploadTextRead)
    /\ WF_uploadVars(UploadExcelLoad)
    /\ WF_uploadVars(UploadTimeout)

\* TableCopyDialogV2's content and its cleaning.

CleanNext ==
    \/ CopyEditContent /\ UNCHANGED <<shellVars, indexerVars, searchVars, indexingVars, chatVars, failureLog, translateVars, uploadVars, threadVars>>
    \/ CopyCleanData /\ UNCHANGED <<shellVars, indexerVars, searchVars, indexingVars, chatVars, failureLog, translateVars, uploadVars, threadVars>>
    \/ CopyCleanAnswer /\ UNCHANGED <<shellVars, indexerVars, searchVars, indexingVars, chatVars, failureLog, translateVars, uploadVars, threadVars>>
    \/ CopyRevert /\ UNCHANGED <<shellVars, indexerVars, searchVars, indexingVars, chatVars, failureLog, translateVars, uploadVars, threadVars>>
    \/ CopyEditData /\ UNCHANGED <<shellVars, indexerVars, searchVars, indexingVars, chatVars, failureLog, translateVars, uploadVars, threadVars>>

SpecClean == InitOneVerify /\ [][CleanNext]_vars

\* DataThread, mounted with any of the table lists.

InitThread ==
    /\ ConfigInit /\ AuthStart(1) /\ IndexerInit /\ ChatInit /\ TranslateInit
    /\ fileUploading = <<>>
    /\ uploads = <<>>
    /\ uploadTimers = {}
    /\ nUploads = 0
    /\ uploadLog = <<>>
    /\ uploadMessages = <<>>
    /\ tablesLoaded = <<>>
    /\ tableContent = ""
    /\ cleaningInProgress = FALSE
    /\ cleanTableContent = undefined
    /\ cleanReqs = <<>>
    /\ nClean = 0
    /\ cleanMessages = 0
    /\ tables \in TableLists
    /\ leafTables = <<>>
    /\ threads = <<>>

ThreadNext ==
    \/ ThreadMount /\ UNCHANGED <<shellVars, indexerVars, searchVars, indexingVars, chatVars, failureLog, translateVars, uploadVars, cleanVars>>
    \/ ThreadToggleAnchored /\ UNCHANGED <<shellVars, indexerVars, searchVars, indexingVars, chatVars, failureLog, translateVars, uploadVars, cleanVars>>
    \/ ThreadDeleteTable /\ UNCHANGED <<shellVars, indexerVars, searchVars, indexingVars, chatVars, failureLog, translateVars, uploadVars, cleanVars>>

SpecThread == InitThread /\ [][ThreadNext]_vars

(***************************************************************************)
(* The claims                                                              *)
(***************************************************************************)
\* C1: the authenticated shell is rendered only while isAuthenticated is
\* true: AppFC shows the spinner exactly while isLoading, the Login page
\* exactly when isLoading is false and isAuthenticated is false, and the shell
\* otherwise; while loading the state is the initial one (not authenticated,
\* no user).
C1_ShellOnlyWhenAuthenticated ==
    /\ rendered = "shell" => isAuthenticated
    /\ rendered = "spinner" <=> isLoading
    /\ rendered = "login" <=> (~isLoading /\ ~isAuthenticated)
    /\ rendered \in {"spinner", "login", "shell"}
    /\ isLoading => (~isAuthenticated /\ user = NoUser)

\* The shell is shown after a login through the form.
C1_Witness ==
    /\ rendered = "shell"
    /\ nOnLoginSuccess > 0
    /\ user \in Users


\* C9: every setConfig dispatched by ConfigDialog carries a defaultChartWidth
\* and a defaultChartHeight between 100 and 1000 pixels inclusive.
C9_ChartSizeInRange ==
    nSetConfig > 0 =>
        /\ ~ChartSizeError(lastSetConfig.defaultChartWidth)
        /\ ~isNaN(lastSetConfig.defaultChartWidth)
        /\ ~ChartSizeError(lastSetConfig.defaultChartHeight)
        /\ ~isNaN(lastSetConfig.defaultChartHeight)

\* C10: every step that dispatches setConfig carries
\* 1 <= formulateTimeoutSeconds <= 3600 and 1 <= maxRepairAttempts <= 5, and
\* is taken from a state whose edited values differ from the stored config.
C10_BackendConfigInRange ==
    [][nSetConfig' # nSetConfig =>
        /\ 1 <= lastSetConfig'.formulateTimeoutSeconds
        /\ lastSetConfig'.formulateTimeoutSeconds <= 3600
        /\ 1 <= lastSetConfig'.maxRepairAttempts
        /\ lastSetConfig'.maxRepairAttempts <= 5
        /\ lastSetConfig' # config
        /\ config' = lastSetConfig']_vars

\* A setConfig with both backend values at their upper limits was dispatched,
\* a non-numeric value was typed afterwards, and the dialog is open with
\* Apply disabled.
C10_Witness ==
    /\ nSetConfig > 0
    /\ lastSetConfig.formulateTimeoutSeconds = 3600
    /\ lastSetConfig.maxRepairAttempts = 5
    /\ configOpen
    /\ isNaN(formulateTimeoutSeconds)
    /\ ApplyDisabled

\* C6: a handleSubmit call starts with loading = true and error = ''; when
\* its request is answered it calls onLoginSuccess once if the response is ok
\* and its body has success = true and not at all otherwise, sets error to
\* 'Network error. Please try again.' for a rejected fetch or a non-ok status
\* and to the server's message (or 'Login failed') for success = false, and
\* sets loading back to false.
C6_HandleSubmit ==
    [][/\ nSubmit' # nSubmit => (loginLoading' /\ loginError' = EmptyString)
       /\ nOnLoginSuccess' # nOnLoginSuccess =>
            Cardinality(loginReqs') < Cardinality(loginReqs)
       /\ Cardinality(loginReqs') < Cardinality(loginReqs) =>
            LET a == loginOutcome'
            IN  /\ Cardinality(loginReqs') = Cardinality(loginReqs) - 1
                /\ nOnLoginSuccess' - nOnLoginSuccess =
                       IF a.kind = "body" /\ a.success THEN 1 ELSE 0
                /\ (a.kind = "body" /\ a.success) =>
                       (isAuthenticated' /\ user' = a.user)
                /\ a.mounted => ~loginLoading'
                /\ (a.mounted /\ a.kind \in {"reject", "http", "json"}) =>
                       loginError' = NetworkError
                /\ (a.mounted /\ a.kind = "body" /\ ~a.success) =>
                       loginError' = (IF a.message = EmptyString THEN LoginFailed
                                      ELSE a.message)]_vars

\* A second attempt was made after a first one that failed ended with the
\* form enabled again, and it was refused without a message.
C6_Witness ==
    /\ nSubmit = 2
    /\ nOnLoginSuccess = 0
    /\ loginReqs = {}
    /\ loginOutcome.kind = "body"
    /\ loginOutcome.mounted
    /\ loginError = LoginFailed
    /\ ~loginLoading
    /\ rendered = "login"

\* C2: every failed request (a rejected fetch or an answer reporting failure)
\* that a mounted component has handled ended with an error message on
\* display.
C2_EveryFailureSurfaced ==
    (failureLog.op # "none" /\ failureLog.mounted) => failureLog.shown

\* C4: the lists of indexed databases shown by DatabaseIndexer and by
\* NLPChat and the schema shown equal the payload of the last successful
\* answer their instance received, or their initial empty value; a failed
\* request leaves them as they were.
C4_ReflectsLastSuccess ==
    /\ ixIndexedDatabases = ixLastList.databases
    /\ selectedDatabase = ixLastSchema
    /\ chatIndexedDatabases = chatLastList.databases

\* A refresh of the list has failed while a list and a schema were shown:
\* both are still there, with the error message.
C4_Witness ==
    /\ failureLog = Failure("list", TRUE, TRUE)
    /\ ixMessage.type = "error"
    /\ ixIndexedDatabases = <<1, 2>>
    /\ ixLastList.any
    /\ selectedDatabase \in Schemas
    /\ ~ixLoading

\* C5: once no loadIndexedDatabases request of the mounted DatabaseIndexer
\* is in flight, indexedDatabases equals the databases of the successful
\* answer that arrived last, whatever the order the requests were sent in.
C5_LastResponseWins ==
    (/\ ixOpen
     /\ ixLastList.any
     /\ \A i \in DOMAIN ixReqs : ~(ixReqs[i].op = "list" /\ ixReqs[i].mounted))
        => ixIndexedDatabases = ixLastList.databases

\* The reload after a successful index was answered before the initial load:
\* the initial load's answer arrived last and is what is shown.
C5_Witness ==
    /\ ixOpen
    /\ nIndexCalls > 0
    /\ ixLastList.any
    /\ ixLastList.stale
    /\ ixLastList.databases = <<1>>
    /\ ixIndexedDatabases = <<1>>
    /\ ixReqs = <<>>

C7_IsTurkishText ==
    trPhase # "idle" =>
        /\ trText = <<>> => ~trIsTurkish
        /\ trText = Customer => ~trIsTurkish
        /\ trText = TopSellingCustomers => ~trIsTurkish
        /\ trText = Musteri => trIsTurkish
        /\ trText = EnCokSatis => trIsTurkish

\* C8: getTranslationSuggestions returns the empty list exactly when
\* wasTranslated is false; otherwise its first entry is the 'Translated from
\* Turkish' line with the original and the translated text, and a second
\* entry, the confidence in percent, is there exactly when the confidence is
\* below 0.8.
C8_Suggestions ==
    trPhase = "suggested" =>
        /\ trSuggestions = <<>> <=> ~trResult.wasTranslated
        /\ trResult.wasTranslated =>
            /\ trSuggestions[1].line = "Translated from Turkish"
            /\ trSuggestions[1].original = trResult.originalText
            /\ trSuggestions[1].translated = trResult.translatedText
            /\ Len(trSuggestions) = (IF trResult.confidence < 800 THEN 2 ELSE 1)
            /\ trResult.confidence < 800 =>
                /\ trSuggestions[2].line = "Translation confidence"
                /\ trSuggestions[2].percent * 10 - trResult.confidence \in -5..5

\* A translation with confidence 0.65 got both lines, the second one with 65.
C8_Witness ==
    /\ trPhase = "suggested"
    /\ trResult.wasTranslated
    /\ trResult.confidence = 650
    /\ Len(trSuggestions) = 2
    /\ trSuggestions[2].percent = 65

\* C11: a progress request is issued only while the index request of the
\* handleIndexDatabase call that set the interval is still in flight: the
\* polling has stopped once that call has set indexing back to false.
C11_PollingStops ==
    [][(/\ Len(ixReqs') = Len(ixReqs) + 1
        /\ ixReqs'[Len(ixReqs')].op = "progress")
       => \E i \in DOMAIN ixReqs :
            /\ ixReqs[i].op = "index"
            /\ ixReqs[i].call = ixReqs'[Len(ixReqs')].call]_vars


\* C12: at most one chat query is in progress at a time: the instance never
\* has two handleSendQuery calls between acceptance and reply, the phase in
\* which the text is being translated included.
C12_OneQueryInProgress ==
    \A i, j \in DOMAIN sendCalls :
        (/\ sendCalls[i].kind = "send" /\ sendCalls[i].mounted
         /\ sendCalls[j].kind = "send" /\ sendCalls[j].mounted) => i = j

\* C13: once login has made the session authenticated, only logout ends it:
\* every checkAuth is the mount effect's and was started before the login,
\* so its response does not set isAuthenticated back to false.
C13_LoginStaysAuthenticated ==
    [][(nOnLoginSuccess > 0 /\ isAuthenticated /\ ~isAuthenticated')
       => logoutInFlight' = logoutInFlight - 1]_vars

C15_Backoff ==
    [][(trPhase = "await" /\ trPhase' = "await" /\ trAttempt' = trAttempt + 1)
       => trWaits' = Append(trWaits, 2 ^ trAttempt * 1000)]_vars

\* C16: smartTranslateTurkishToEnglish ends after at most maxRetries + 1
\* attempts, each answer either ending it or starting the next attempt; it
\* goes on only after an attempt whose result is not a translation, returns
\* the result of the first attempt that is one (wasTranslated and a
\* non-empty translatedText), and returns the dictionary fallback with
\* confidence 0.5 when no attempt gave one.
C16_SmartTranslate ==
    [][/\ trAttempt' <= DefaultMaxRetries + 1
       /\ nTranslateReqs' <= DefaultMaxRetries + 1
       /\ trPhase = "await" => trPhase' \in {"await", "done"}
       /\ (trPhase = "await" /\ trPhase' = "await")
          => /\ trAttempt' = trAttempt + 1
             /\ ~(trResult'.wasTranslated /\ Len(trResult'.translatedText) > 0)
       /\ (trPhase \in {"detected", "await"} /\ trPhase' = "done")
          => \/ /\ trPhase = "await"
                /\ trAttempt' = trAttempt
                /\ trResult'.wasTranslated /\ Len(trResult'.translatedText) > 0
             \/ /\ trAttempt' = DefaultMaxRetries + 1
                /\ trResult' = [originalText |-> trText,
                                translatedText |-> simpleDictionaryTranslate(trText),
                                wasTranslated |-> simpleDictionaryTranslate(trText) # trText,
                                confidence |-> 500]]_vars

\* Three attempts without a translation have ended in the fallback, which
\* did translate.
C16_Witness ==
    /\ trPhase = "done"
    /\ trAttempt = DefaultMaxRetries + 1
    /\ nTranslateReqs = DefaultMaxRetries + 1
    /\ trResult.wasTranslated
    /\ trResult.confidence = 500

\* C17: a send is accepted with the typed text as its original; it asks for
\* a translation exactly if auto-translate is on and the text is detected
\* as Turkish, and otherwise its request carries the typed text.  After the
\* translation the request carries the translated text (the server's, or
\* the dictionary's).  The user message shows the typed text once, the
\* 'Automatically translated' message is the one right after it, names the
\* typed text and a translation that differs from it, and is there exactly
\* if the request's text differs from the typed one; every other message of
\* the call comes later.
C17_SendQuery ==
    [][LET calls == sendCalls'
           shown == messages'
           notice(m) == m.content[1] = "Automatically translated ("
       IN  /\ (nSendCalls' = nSendCalls + 1 /\ calls[Len(calls)].kind = "send")
              => LET c == calls[Len(calls)]
                 IN  /\ c.original = inputQuery
                     /\ c.phase = "translate" <=> (autoTranslate /\ isTurkishText(inputQuery))
                     /\ c.phase = "query" => (c.natural_query = inputQuery /\ c.via = "none")
           /\ \A i \in DOMAIN calls :
                LET c == calls[i]
                IN  (c.kind = "send" /\ c.phase = "query")
                    => /\ c.via = "none" => c.natural_query = c.original
                       /\ c.via = "server" => c.natural_query = <<"t", "o", "p">>
                       /\ c.via = "dictionary"
                          => c.natural_query = simpleDictionaryTranslate(c.original)
                       /\ c.mounted
                          => \E j \in DOMAIN shown :
                                /\ shown[j].type = "user"
                                /\ shown[j].call = c.call
                                /\ shown[j].content = c.original
                                /\ (c.natural_query # c.original)
                                   <=> (j < Len(shown) /\ notice(shown[j + 1]))
                                /\ \A k \in DOMAIN shown :
                                     (k > j /\ shown[k].call = c.call /\ notice(shown[k]))
                                     => /\ k = j + 1
                                        /\ SubSeq(shown[k].content, 4, Len(shown[k].content))
                                           = c.original \o <<" -> ">> \o c.natural_query
           /\ \A j, k \in DOMAIN shown :
                (shown[j].type = "user" /\ shown[k].call = shown[j].call /\ k # j)
                => /\ shown[k].type = "assistant"
                   /\ k > j
                   /\ notice(shown[k])
                      => LET text == shown[j].content
                             rest == SubSeq(shown[k].content, 4, Len(shown[k].content))
                         IN  /\ k = j + 1
                             /\ SubSeq(rest, 1, Len(text) + 1) = text \o <<" -> ">>
                             /\ SubSeq(rest, Len(text) + 2, Len(rest)) # text]_vars

\* A Turkish query has been translated by the server and answered: user
\* message, 'Automatically translated' message and reply, and a second one,
\* sent with auto-translate off, is in flight with the typed text.
C17_Witness ==
    /\ Len(messages) = 4
    /\ messages[1].type = "user" /\ messages[1].content = Musteri
    /\ messages[2].content[1] = "Automatically translated ("
    /\ messages[3].sqlQuery
    /\ messages[4].type = "user"
    /\ ~autoTranslate
    /\ \E i \in DOMAIN sendCalls :
        /\ sendCalls[i].phase = "query"
        /\ sendCalls[i].via = "none"
        /\ sendCalls[i].natural_query = Musteri

\* C18: translateTurkishToEnglishWithLLM returns the text unchanged with
\* confidence 1.0 and without a request when the text is empty or not
\* Turkish; the trimmed translated_text with the server's confidence, or
\* 0.9 if the answer has none, on success; and the dictionary translation
\* with confidence 0.6, wasTranslated only if the text changed, otherwise.
C18_TranslateWithLLM ==
    trPhase = "returned"
    => IF trText = <<>> \/ ~isTurkishText(trText)
       THEN /\ nTranslateReqs = 0
            /\ trResult = [originalText |-> trText, translatedText |-> trText,
                           wasTranslated |-> FALSE, confidence |-> 1000]
       ELSE /\ nTranslateReqs = 1
            /\ IF /\ trAnswer.kind = "body" /\ trAnswer.status = "success"
                  /\ trAnswer.translated_text # <<>>
               THEN trResult = [originalText |-> trText,
                                translatedText |-> Trim(trAnswer.translated_text),
                                wasTranslated |-> TRUE,
                                confidence |-> IF trAnswer.confidence = -1 THEN 900
                                               ELSE trAnswer.confidence]
               ELSE trResult = [originalText |-> trText,
                                translatedText |-> simpleDictionaryTranslate(trText),
                                wasTranslated |-> simpleDictionaryTranslate(trText) # trText,
                                confidence |-> 600]

\* C19: isAuthenticated is true exactly if user is set, in every state of
\* AuthProvider.
C19_AuthenticatedIffUser == isAuthenticated <=> user # NoUser

\* A login has succeeded after the mount-time checks, and a logout is on its
\* way.
C19_Witness ==
    /\ isAuthenticated
    /\ user \in Users
    /\ nOnLoginSuccess = 1
    /\ verifyInFlight = 0
    /\ logoutInFlight = 1

\* C20: the end of logout leaves user null and isAuthenticated false; the
\* end of checkAuth leaves isLoading false, and after a rejected verify
\* request also user null and isAuthenticated false; isLoading, once false,
\* stays false.
C20_LogoutAndCheckAuth ==
    [][/\ logoutInFlight' = logoutInFlight - 1 => (user' = NoUser /\ ~isAuthenticated')
       /\ verifyInFlight' = verifyInFlight - 1
          => /\ ~isLoading'
             /\ verifyOutcome'.kind = "throw" => (user' = NoUser /\ ~isAuthenticated')
       /\ ~isLoading => ~isLoading']_vars

\* The last check has found the session authenticated, and a logout has
\* ended since.
C20_Witness ==
    /\ verifyOutcome.kind = "body" /\ verifyOutcome.authenticated
    /\ nOnLoginSuccess = 0
    /\ verifyInFlight = 0
    /\ logoutInFlight = 0
    /\ user = NoUser
    /\ ~isAuthenticated
    /\ ~isLoading

C23_UploadsEnd ==
    /\ [][\A j \in (Len(uploadLog) + 1)..Len(uploadLog') :
            LET e == uploadLog'[j]
            IN  /\ \E r \in Range(fileUploading') :
                     /\ r.fileName = e.fileName
                     /\ r.progress = 100
                     /\ r.status = e.status
                /\ e.status \in {"complete", "error"}
                /\ [fileName |-> e.fileName, call |-> e.call,
                    delay |-> IF e.status = "complete" THEN 3000 ELSE 5000]
                       \in uploadTimers' \ uploadTimers
                /\ e.kind = "unsupported" =>
                     /\ e.status = "error"
                     /\ \E m \in (Len(uploadMessages) + 1)..Len(uploadMessages') :
                          uploadMessages'[m] = [type |-> "error", call |-> e.call]
                     /\ \A t \in Range(tablesLoaded') : t.call # e.call]_vars
    /\ \A k \in 1..MaxUploads :
         (\E c \in Range(uploads) : c.call = k) ~> (\E e \in Range(uploadLog) : e.call = k)
    /\ (fileUploading # <<>>) ~> (fileUploading = <<>>)

\* An Excel file and a file of unsupported type were chosen together: the
\* second has ended in 'error', the first is still being read, and the
\* upload button is disabled.
C23_Witness ==
    /\ Len(uploadLog) = 1
    /\ uploadLog[1].kind = "unsupported"
    /\ \E c \in Range(uploads) : c.kind = "excel" /\ c.read = 50
    /\ Len(fileUploading) = 2
    /\ \E t \in uploadTimers : t.delay = 5000

\* C24: cleaningInProgress is true as long as a clean-data request is in
\* flight, and once no request is in flight a cleaned table that is shown
\* is the result of the request issued last.
C24_LatestCleanWins ==
    /\ cleanReqs # <<>> => cleaningInProgress
    /\ (cleanReqs = <<>> /\ cleanTableContent # undefined) => cleanTableContent.token = nClean

\* C25: after a render, leafTables holds the leaf tables, each as often as
\* before the sort, ordered by their lists of ancestor orders: of two
\* entries the earlier one's list is a prefix of the later one's, or is
\* smaller at the first position where the two differ.  Thread i displays
\* leafTables[i].
C25_LeafTablesSorted ==
    threads # <<>> =>
        /\ \A t \in Range(tables) :
             Cardinality({i \in DOMAIN leafTables : leafTables[i] = t})
                 = Cardinality({i \in DOMAIN LeafTables(tables) : LeafTables(tables)[i] = t})
        /\ Len(leafTables) = Len(LeafTables(tables))
        /\ \A i, j \in DOMAIN leafTables :
             i < j =>
                LET a == getAncestorOrders(leafTables[i], tables)
                    b == getAncestorOrders(leafTables[j], tables)
                IN  \/ /\ Len(a) <= Len(b)
                       /\ \A k \in DOMAIN a : a[k] = b[k]
                    \/ \E k \in DOMAIN a \cap DOMAIN b :
                         /\ a[k] < b[k]
                         /\ \A m \in 1..(k - 1) : a[m] = b[m]
        /\ DOMAIN threads = DOMAIN leafTables
        /\ \A i \in DOMAIN threads :
             threads[i].threadIdx = i /\ threads[i].leafTable = leafTables[i]

\* The sort has changed the order: an anchored derived table and the table
\* derived from it are both leaves, the first list the prefix of the second,
\* and a third leaf with a longer list comes before a leaf whose shorter
\* list is greater at the first difference.
C25_Witness ==
    /\ threads # <<>>
    /\ leafTables # LeafTables(tables)
    /\ \E i, j \in DOMAIN leafTables :
         LET a == getAncestorOrders(leafTables[i], tables)
             b == getAncestorOrders(leafTables[j], tables)
         IN  i < j /\ Len(a) < Len(b) /\ \A k \in DOMAIN a : a[k] = b[k]
    /\ \E i, j \in DOMAIN leafTables :
         LET a == getAncestorOrders(leafTables[i], tables)
             b == getAncestorOrders(leafTables[j], tables)
         IN  i < j /\ Len(a) > Len(b)

====
